---- MODULE Spec2Model ----
(***************************************************************************)
(* A model of the PII redaction engine of ineuralworks/pii_redaction_model *)
(* (src/redactor.py, the live code of lines 1-273) and of its accuracy     *)
(* scorer (src/metrics.py).                                                *)
(*                                                                         *)
(* Text is a sequence of one-character strings: "ab-1" is                  *)
(* <<"a","b","-","1">>.  Offsets are Python's: a span [b, e) of a text s   *)
(* covers s[b+1] .. s[e] in the 1-based indexing of TLA+.                  *)
(***************************************************************************)
EXTENDS Integers, Sequences, FiniteSets, TLC

VARIABLES
    value,           \* SpecMask: the span handed to format_preserving_mask
    masked,          \* SpecMask: what format_preserving_mask returned
    maskCalled,      \* SpecMask: has format_preserving_mask returned
    remasked,        \* SpecMask: what format_preserving_mask returned for its own results
    fill_text,       \* SpecFiller: the text handed to remove_fillers
    fill_clean,      \* SpecFiller: what remove_fillers returned
    cleaned,         \* SpecFiller: has remove_fillers returned
    records,         \* mask_pii_with_comprehend: the records list (mutated in place)
    min_confidence,  \* mask_pii_with_comprehend: the caller's threshold
    idx,             \* position of "for rec in records" (1-based)
    pc,              \* position inside mask_pii_with_comprehend
    sent,            \* local sent of the record being processed
    entities,        \* local entities (merged list) of the record being processed
    todo,            \* what is left of the sorted list of loop 6d
    audit_log,       \* local audit_log
    input,           \* history: the records as the caller passed them
    responses,       \* history: what the primary detector answered, per record
    calls,           \* history: calls of the primary detector, per record
    merged,          \* history: the merged entity list of each record
    trail,           \* history: for each row of audit_log, its record and span
    label,           \* the label t passed to _canonical
    recased,         \* history: the label, written in another letter case
    canon,           \* history: what the calls of _canonical returned
    file_name,       \* record_file_metrics: the name of the uploaded file
    data,            \* the uploaded file, as json.loads gives it
    audit_csv,       \* the audit CSV process_file wrote for the file
    mpc,             \* position inside record_file_metrics
    df_audit,        \* _compute_accuracy: local df_audit
    rec_i,           \* _compute_accuracy: position of "for rec in data"
    TP, FP, FN,      \* _compute_accuracy: the local counts
    gt, pr,          \* _compute_accuracy: the local sets of the record last compared
    _file_metrics,   \* the store of file-level records
    _accuracy_results,      \* the store of accuracy results
    _ground_truth_reports,  \* the store of ground-truth reports, by file name
    summary,         \* what the last call of summarize_accuracy returned, if any
    uploads,         \* history: the files record_file_metrics was called with
    _text_metrics,   \* the store of sentence-level records
    now,             \* the clock, time.time(), in seconds
    last_activity,   \* st.session_state.last_activity of every session
    session_metrics, \* the four collections of st.session_state of every session
    session,         \* the session whose run of the script is the latest
    runs,            \* history: the runs of the script
    dashboard        \* what the metrics dashboard of the latest run showed

vars == <<value, masked, maskCalled, remasked, fill_text, fill_clean, cleaned, records, min_confidence, idx, pc, sent,
          entities, todo, audit_log, input, responses, calls, merged, trail,
          label, recased, canon, file_name, data, audit_csv, mpc, df_audit,
          rec_i, TP, FP, FN, gt, pr, _file_metrics, _accuracy_results,
          _ground_truth_reports, summary, uploads, _text_metrics, now,
          last_activity, session_metrics, session, runs, dashboard>>

maskVars == <<value, masked, maskCalled, remasked>>
fillVars == <<fill_text, fill_clean, cleaned>>
canonVars == <<label, recased, canon>>
appVars == <<_text_metrics, now, last_activity, session_metrics, session, runs,
             dashboard>>
sessionVars == <<summary, uploads, appVars>>
scoreVars == <<file_name, data, audit_csv, mpc, df_audit, rec_i, TP, FP, FN,
               gt, pr, _file_metrics, _accuracy_results, _ground_truth_reports,
               sessionVars>>
metricVars == <<canonVars, scoreVars>>
pipeVars == <<records, min_confidence, idx, pc, sent, entities, todo, audit_log,
              input, responses, calls, merged, trail>>

-----------------------------------------------------------------------------
(* Characters.                                                             *)

LowerSeq == <<"a","b","c","d","e","f","g","h","i","j","k","l","m",
              "n","o","p","q","r","s","t","u","v","w","x","y","z">>
UpperSeq == <<"A","B","C","D","E","F","G","H","I","J","K","L","M",
              "N","O","P","Q","R","S","T","U","V","W","X","Y","Z">>
Lower == {LowerSeq[i] : i \in 1..26}
Upper == {UpperSeq[i] : i \in 1..26}
Letter == Lower \cup Upper
Digit == {"0","1","2","3","4","5","6","7","8","9"}

\* str.isalnum() of one character (ASCII)
IsAlnum(ch) == ch \in Letter \cup Digit

\* regex \w, \s (the texts of the model hold no other white space than " ")
WordChar == Letter \cup Digit \cup {"_"}
Space == {" "}

\* str.upper() / str.lower() of one character
UpperCh(ch) ==
    IF ch \in Lower THEN UpperSeq[CHOOSE i \in 1..26 : LowerSeq[i] = ch] ELSE ch
LowerCh(ch) ==
    IF ch \in Upper THEN LowerSeq[CHOOSE i \in 1..26 : UpperSeq[i] = ch] ELSE ch

\* str.upper()
UpperStr(s) == [i \in 1..Len(s) |-> UpperCh(s[i])]

\* Python's s[b:e] for 0 <= b, 0 <= e
Slice(s, b, e) ==
    LET hi == IF e > Len(s) THEN Len(s) ELSE e
    IN  IF b >= hi THEN <<>> ELSE SubSeq(s, b + 1, hi)

MASK_CHAR == "*"

-----------------------------------------------------------------------------
(* format_preserving_mask                                                  *)

RECURSIVE IndicesFrom(_, _)
\* [i for i, ch in enumerate(value) if ch.isalnum()], as 1-based indices >= i
IndicesFrom(v, i) ==
    IF i > Len(v) THEN <<>>
    ELSE IF IsAlnum(v[i]) THEN <<i>> \o IndicesFrom(v, i + 1)
    ELSE IndicesFrom(v, i + 1)

alnum_indices(v) == IndicesFrom(v, 1)

\* the commented-out first version of the function (src/redactor.py:95-98)
MaskByPosition(v) ==
    IF Len(v) <= 2 THEN [i \in 1..Len(v) |-> MASK_CHAR]
    ELSE [i \in 1..Len(v) |-> IF i = 1 \/ i = Len(v) THEN v[i] ELSE MASK_CHAR]

\* a faulty variant of format_preserving_mask: the first and the last
\* alphanumeric character are kept however few there are
MaskInnerOnly(v) ==
    LET ai == alnum_indices(v)
    IN  [i \in 1..Len(v) |->
            IF IsAlnum(v[i]) /\ i # ai[1] /\ i # ai[Len(ai)] THEN MASK_CHAR ELSE v[i]]

format_preserving_mask(v) ==
    IF Len(v) = 0 THEN v
    ELSE LET ai == alnum_indices(v)
         IN  IF Len(ai) <= 2
             THEN [i \in 1..Len(v) |-> IF IsAlnum(v[i]) THEN "*" ELSE v[i]]
             ELSE LET inner == {ai[k] : k \in 2..(Len(ai) - 1)}
                  IN  [i \in 1..Len(v) |-> IF i \in inner THEN "*" ELSE v[i]]

-----------------------------------------------------------------------------
(* Regular expressions: the fragment of Python's re the patterns use.      *)
(* A pattern is a tree of nodes; Match is re's backtracking matcher: each  *)
(* alternation tries its branches in order, each repetition is greedy, and *)
(* the first way to match the whole pattern decides where the match ends.  *)

Cls(S)         == [k |-> "cls", c |-> S,  sub |-> <<>>,  lo |-> 0,  hi |-> 0]
WB             == [k |-> "wb",  c |-> {}, sub |-> <<>>,  lo |-> 0,  hi |-> 0]
Cat(items)     == [k |-> "cat", c |-> {}, sub |-> items, lo |-> 0,  hi |-> 0]
Alt(items)     == [k |-> "alt", c |-> {}, sub |-> items, lo |-> 0,  hi |-> 0]
\* r{lo,hi}, greedy; hi = -1 is "no upper limit"
Rep(r, lo, hi) == [k |-> "rep", c |-> {}, sub |-> <<r>>, lo |-> lo, hi |-> hi]
\* the end of the text (what fullmatch adds to a pattern)
End            == [k |-> "end", c |-> {}, sub |-> <<>>,  lo |-> 0,  hi |-> 0]
Opt(r)         == Rep(r, 0, 1)
Plus(r)        == Rep(r, 1, -1)
Star(r)        == Rep(r, 0, -1)

\* a literal text, case-sensitive / under re.IGNORECASE
Lit(s)  == Cat([i \in 1..Len(s) |-> Cls({s[i]})])
LitI(s) == Cat([i \in 1..Len(s) |-> Cls({LowerCh(s[i]), UpperCh(s[i])})])

\* \b at offset i of s
AtWordBoundary(s, i) ==
    LET before == i >= 1 /\ i <= Len(s) /\ s[i] \in WordChar
        after  == i < Len(s) /\ s[i + 1] \in WordChar
    IN  before # after

RECURSIVE Match(_, _, _)
RECURSIVE MatchAlt(_, _, _, _)
\* the offset at which a match of the nodes of stack, in sequence, ends when
\* it starts at offset i of s; -1 when there is none
Match(stack, s, i) ==
    IF Len(stack) = 0 THEN i
    ELSE LET h    == Head(stack)
             rest == Tail(stack)
         IN  CASE h.k = "cls" ->
                    IF i < Len(s) /\ s[i + 1] \in h.c
                    THEN Match(rest, s, i + 1) ELSE -1
               [] h.k = "wb" ->
                    IF AtWordBoundary(s, i) THEN Match(rest, s, i) ELSE -1
               [] h.k = "end" ->
                    IF i = Len(s) THEN Match(rest, s, i) ELSE -1
               [] h.k = "cat" -> Match(h.sub \o rest, s, i)
               [] h.k = "alt" -> MatchAlt(h.sub, rest, s, i)
               [] h.k = "rep" ->
                    IF h.hi = 0 THEN Match(rest, s, i)
                    ELSE LET less == Rep(h.sub[1],
                                         IF h.lo > 0 THEN h.lo - 1 ELSE 0,
                                         IF h.hi > 0 THEN h.hi - 1 ELSE -1)
                             more == Match(<<h.sub[1], less>> \o rest, s, i)
                         IN  IF more # -1 THEN more
                             ELSE IF h.lo = 0 THEN Match(rest, s, i)
                             ELSE -1

MatchAlt(branches, rest, s, i) ==
    IF Len(branches) = 0 THEN -1
    ELSE LET first == Match(<<Head(branches)>> \o rest, s, i)
         IN  IF first # -1 THEN first
             ELSE MatchAlt(Tail(branches), rest, s, i)

RECURSIVE FindFrom(_, _, _)
\* pattern.finditer(s) from offset pos on: the non-overlapping matches,
\* leftmost first, as spans [b, e).  Every pattern below consumes text.
FindFrom(pat, s, pos) ==
    IF pos > Len(s) THEN <<>>
    ELSE LET e == Match(<<pat>>, s, pos)
         IN  IF e = -1 THEN FindFrom(pat, s, pos + 1)
             ELSE <<[b |-> pos, e |-> e]>>
                  \o FindFrom(pat, s, IF e > pos THEN e ELSE pos + 1)

finditer(pat, s) == FindFrom(pat, s, 0)

\* bool(pattern.search(s))
search(pat, s) == Len(finditer(pat, s)) > 0

\* bool(pattern.fullmatch(s))
fullmatch(pat, s) == Match(<<pat, End>>, s, 0) # -1

-----------------------------------------------------------------------------
(* The patterns of src/redactor.py, sections 3 and 4.                      *)

D(n)      == Rep(Cls(Digit), n, n)
Century   == Alt(<<Lit(<<"1","9">>), Lit(<<"2","0">>)>>)
SepOpt    == Opt(Cls({"-", ".", " "}))
AddrWord  == Cls(Letter \cup Digit \cup {"'", "."})

\* \b(?:um+|hmm+|uh+|ah+|erm+)\b, re.IGNORECASE
FILLER_PATTERN ==
    Cat(<<WB,
          Alt(<<Cat(<<LitI(<<"u">>), Plus(LitI(<<"m">>))>>),
                Cat(<<LitI(<<"h","m">>), Plus(LitI(<<"m">>))>>),
                Cat(<<LitI(<<"u">>), Plus(LitI(<<"h">>))>>),
                Cat(<<LitI(<<"a">>), Plus(LitI(<<"h">>))>>),
                Cat(<<LitI(<<"e","r">>), Plus(LitI(<<"m">>))>>)>>),
          WB>>)

MonthName ==
    Alt(<<Cat(<<Lit(<<"J","a","n">>), Opt(Lit(<<"u","a","r","y">>))>>),
          Cat(<<Lit(<<"F","e","b">>), Opt(Lit(<<"r","u","a","r","y">>))>>),
          Cat(<<Lit(<<"M","a","r">>), Opt(Lit(<<"c","h">>))>>),
          Cat(<<Lit(<<"A","p","r">>), Opt(Lit(<<"i","l">>))>>),
          Lit(<<"M","a","y">>),
          Cat(<<Lit(<<"J","u","n">>), Opt(Lit(<<"e">>))>>),
          Cat(<<Lit(<<"J","u","l">>), Opt(Lit(<<"y">>))>>),
          Cat(<<Lit(<<"A","u","g">>), Opt(Lit(<<"u","s","t">>))>>),
          Cat(<<Lit(<<"S","e","p">>), Opt(Lit(<<"t","e","m","b","e","r">>))>>),
          Cat(<<Lit(<<"O","c","t">>), Opt(Lit(<<"o","b","e","r">>))>>),
          Cat(<<Lit(<<"N","o","v">>), Lit(<<"e","m","b","e","r">>)>>),
          Cat(<<Lit(<<"D","e","c">>), Opt(Lit(<<"e","m","b","e","r">>))>>)>>)

\* PII_PATTERNS["DATE_OF_BIRTH"], in list order
DOB_PATTERNS ==
    << Cat(<<WB, Century, D(2), Lit(<<"-">>), D(2), Lit(<<"-">>), D(2), WB>>),
       Cat(<<WB, D(2), Lit(<<"/">>), D(2), Lit(<<"/">>), Century, D(2), WB>>),
       Cat(<<WB, D(2), Lit(<<"-">>), D(2), Lit(<<"-">>), Century, D(2), WB>>),
       Cat(<<WB, MonthName, Cls(Space), Rep(Cls(Digit), 1, 2), Lit(<<",">>),
             Cls(Space), Century, D(2), WB>>) >>

\* \b[\w\.-]+@[\w\.-]+\.\w+\b
EMAIL_PATTERN ==
    Cat(<<WB, Plus(Cls(WordChar \cup {".", "-"})), Lit(<<"@">>),
          Plus(Cls(WordChar \cup {".", "-"})), Lit(<<".">>), Plus(Cls(WordChar)), WB>>)

\* re.VERBOSE: the white space and the comments of the pattern are no part of it
PHONE_PATTERN ==
    Cat(<<WB,
          Opt(Alt(<<Cat(<<Lit(<<"+","1">>), SepOpt>>), Cat(<<Lit(<<"1">>), SepOpt>>)>>)),
          Alt(<<Cat(<<Lit(<<"(">>), D(3), Lit(<<")">>)>>), D(3)>>),
          SepOpt, D(3), SepOpt, D(4),
          Opt(Cat(<<Star(Cls(Space)),
                    Alt(<<Lit(<<"x">>), Cat(<<Lit(<<"e","x","t">>), Opt(Lit(<<".">>))>>)>>),
                    Star(Cls(Space)), Rep(Cls(Digit), 1, 5)>>)),
          WB>>)

\* \b\d{3}-\d{2}-\d{4}\b
SSN_PATTERN ==
    Cat(<<WB, D(3), Lit(<<"-">>), D(2), Lit(<<"-">>), D(4), WB>>)

\* DOB_ANCHORS, each searched with re.IGNORECASE
DOB_ANCHORS ==
    << Cat(<<WB, LitI(<<"D","O","B">>), WB>>),
       Cat(<<WB, LitI(<<"D","a","t","e"," ","o","f"," ","b","i","r","t","h">>), WB>>),
       Cat(<<WB, LitI(<<"b","o","r","n"," ","o","n">>), WB>>) >>

StreetSuffix ==
    Alt(<<LitI(<<"S","t","r","e","e","t">>),
          LitI(<<"S","t">>),
          LitI(<<"R","o","a","d">>),
          LitI(<<"R","d">>),
          LitI(<<"A","v","e","n","u","e">>),
          LitI(<<"A","v","e">>),
          LitI(<<"B","o","u","l","e","v","a","r","d">>),
          LitI(<<"B","l","v","d">>),
          LitI(<<"L","a","n","e">>),
          LitI(<<"L","n">>),
          LitI(<<"D","r","i","v","e">>),
          LitI(<<"D","r">>),
          LitI(<<"C","o","u","r","t">>),
          LitI(<<"C","t">>),
          LitI(<<"P","l","a","c","e">>),
          LitI(<<"P","l">>),
          LitI(<<"T","e","r","r","a","c","e">>),
          LitI(<<"T","e","r">>),
          LitI(<<"W","a","y">>),
          LitI(<<"H","i","g","h","w","a","y">>),
          LitI(<<"H","w","y">>)>>)

Direction ==
    Alt(<<LitI(<<"N","o","r","t","h">>),
          LitI(<<"N">>),
          LitI(<<"S","o","u","t","h">>),
          LitI(<<"S">>),
          LitI(<<"E","a","s","t">>),
          LitI(<<"E">>),
          LitI(<<"W","e","s","t">>),
          LitI(<<"W">>),
          LitI(<<"N","E">>),
          LitI(<<"N","W">>),
          LitI(<<"S","E">>),
          LitI(<<"S","W">>)>>)

StreetSuffixShort ==
    Alt(<<LitI(<<"S","t">>),
          LitI(<<"S","t","r","e","e","t">>),
          LitI(<<"R","d">>),
          LitI(<<"R","o","a","d">>),
          LitI(<<"A","v","e">>),
          LitI(<<"A","v","e","n","u","e">>),
          LitI(<<"B","l","v","d">>),
          LitI(<<"B","o","u","l","e","v","a","r","d">>),
          LitI(<<"L","n">>),
          LitI(<<"L","a","n","e">>)>>)

\* ADDRESS_PATTERNS, both re.IGNORECASE
ADDRESS_PATTERNS ==
    << Cat(<<WB, Rep(Cls(Digit), 1, 6), Plus(Cls(Space)),
             Rep(Cat(<<Plus(AddrWord), Cls(Space)>>), 1, 6), StreetSuffix, WB>>),
       Cat(<<WB, Rep(Cls(Digit), 1, 6), Plus(Cls(Space)), Direction, Plus(Cls(Space)),
             Plus(AddrWord), Plus(Cls(Space)), StreetSuffixShort, WB>>) >>

-----------------------------------------------------------------------------
(* Section 2 and the helpers of section 5 of src/redactor.py.              *)
(* A PII type is the text of its label.  A confidence is a number of       *)
(* ten-thousandths: 0.5 is 5000, 0.5996 is 5996.                           *)

T_NAME           == <<"N","A","M","E">>
T_ADDRESS        == <<"A","D","D","R","E","S","S">>
T_PHONE          == <<"P","H","O","N","E">>
T_EMAIL          == <<"E","M","A","I","L">>
T_DATE_OF_BIRTH  == <<"D","A","T","E","_","O","F","_","B","I","R","T","H">>
T_SSN            == <<"S","S","N">>
T_EMAIL_ADDRESS  == <<"E","M","A","I","L","_","A","D","D","R","E","S","S">>
T_PHONE_NUMBER   == <<"P","H","O","N","E","_","N","U","M","B","E","R">>
T_URL            == <<"U","R","L">>

TARGET_PII_TYPES == {T_NAME, T_ADDRESS, T_PHONE, T_EMAIL, T_DATE_OF_BIRTH, T_SSN}

\* TYPE_MAP.get(ent_type, ent_type)
normalize_type(ent_type) ==
    IF ent_type = T_EMAIL_ADDRESS THEN T_EMAIL
    ELSE IF ent_type = T_PHONE_NUMBER THEN T_PHONE
    ELSE ent_type

\* round(score, 3).  A score that lies exactly between two thousandths is
\* rounded as its binary floating-point value lies; the model draws no such score.
round3(score) ==
    LET r == score % 10 IN IF r < 5 THEN score - r ELSE score - r + 10

RECURSIVE Blank(_, _)
\* text with the characters of every span of spans replaced by " "
Blank(text, spans) ==
    IF Len(spans) = 0 THEN text
    ELSE Blank([i \in 1..Len(text) |->
                   IF Head(spans).b < i /\ i <= Head(spans).e THEN " " ELSE text[i]],
               Tail(spans))

\* a faulty variant of remove_fillers: only the first filler is replaced
remove_first_filler(text) ==
    LET spans == finditer(FILLER_PATTERN, text)
    IN  Blank(text, IF Len(spans) > 0 THEN <<Head(spans)>> ELSE <<>>)

\* FILLER_PATTERN.sub(lambda m: " " * len(m.group()), text)
remove_fillers(text) == Blank(text, finditer(FILLER_PATTERN, text))

RECURSIVE AnySearch(_, _)
\* any(re.search(a, sentence, re.IGNORECASE) for a in pats)
AnySearch(pats, sentence) ==
    IF Len(pats) = 0 THEN FALSE
    ELSE search(Head(pats), sentence) \/ AnySearch(Tail(pats), sentence)

\* the entities one DATE_OF_BIRTH pattern contributes, in finditer order
DobMatches(spans, sentence, confidence, anchors) ==
    [i \in 1..Len(spans) |->
        [Type        |-> T_DATE_OF_BIRTH,
         Text        |-> Slice(sentence, spans[i].b, spans[i].e),
         Confidence  |-> confidence,
         BeginOffset |-> spans[i].b,
         EndOffset   |-> spans[i].e,
         Source      |-> "regex_fallback",
         Anchored    |-> anchors]]

RECURSIVE DobOver(_, _, _, _)
DobOver(pats, sentence, confidence, anchors) ==
    IF Len(pats) = 0 THEN <<>>
    ELSE DobMatches(finditer(Head(pats), sentence), sentence, confidence, anchors)
         \o DobOver(Tail(pats), sentence, confidence, anchors)

detect_dob_entities(sentence, confidence) ==
    DobOver(DOB_PATTERNS, sentence, confidence, AnySearch(DOB_ANCHORS, sentence))

\* the entities one (pattern, ptype) pair contributes, in finditer order
RegexMatches(spans, text, ptype) ==
    [i \in 1..Len(spans) |->
        [Type        |-> ptype,
         Text        |-> Slice(text, spans[i].b, spans[i].e),
         Confidence  |-> 5000,
         BeginOffset |-> spans[i].b,
         EndOffset   |-> spans[i].e,
         Source      |-> "regex_fallback"]]

RECURSIVE RegexOver(_, _)
RegexOver(pairs, text) ==
    IF Len(pairs) = 0 THEN <<>>
    ELSE RegexMatches(finditer(Head(pairs).pattern, text), text, Head(pairs).ptype)
         \o RegexOver(Tail(pairs), text)

\* a faulty variant of extract_regex_entities: the ADDRESS patterns are left out
extract_base_entities(text) ==
    RegexOver(<< [pattern |-> EMAIL_PATTERN, ptype |-> T_EMAIL],
                 [pattern |-> PHONE_PATTERN, ptype |-> T_PHONE],
                 [pattern |-> SSN_PATTERN,   ptype |-> T_SSN] >>, text)

extract_regex_entities(text) ==
    LET base    == << [pattern |-> EMAIL_PATTERN, ptype |-> T_EMAIL],
                      [pattern |-> PHONE_PATTERN, ptype |-> T_PHONE],
                      [pattern |-> SSN_PATTERN,   ptype |-> T_SSN] >>
        address == [i \in 1..Len(ADDRESS_PATTERNS) |->
                       [pattern |-> ADDRESS_PATTERNS[i], ptype |-> T_ADDRESS]]
    IN  RegexOver(base \o address, text)

\* \d{1,2}[/-]\d{1,2}[/-]\d{2,4}, the pattern of accept_entity for a date of birth
DATE_LIKE ==
    Cat(<<Rep(Cls(Digit), 1, 2), Cls({"/", "-"}), Rep(Cls(Digit), 1, 2),
          Cls({"/", "-"}), Rep(Cls(Digit), 2, 4)>>)

\* accept_entity (src/redactor.py:124-132); the pipeline of section 6 does not call it
accept_entity(ent) ==
    IF ent.Type = T_SSN THEN fullmatch(SSN_PATTERN, ent.Text)
    ELSE IF ent.Type = T_PHONE THEN search(PHONE_PATTERN, ent.Text)
    ELSE IF ent.Type = T_DATE_OF_BIRTH THEN search(DATE_LIKE, ent.Text)
    ELSE TRUE

-----------------------------------------------------------------------------
(* mask_pii_with_comprehend, section 6 of src/redactor.py.                 *)

\* Python's None, as the value of verbatim_id
None == -1

\* key in rec: a record is a dict, keys the sequence of its keys in the order
\* of the document
HasKey(rec, key) == \E k \in 1..Len(rec.keys) : rec.keys[k] = key

\* rec.get("sentence", ""), rec.get("verbatim_id")
GetSentence(rec) == IF HasKey(rec, "sentence") THEN rec.sentence ELSE <<>>
GetVid(rec)      == IF HasKey(rec, "verbatim_id") THEN rec.verbatim_id ELSE None

\* a faulty variant of SetSentence: the key is deleted and put in again, behind the others
SetSentenceMovedLast(rec, s) ==
    [rec EXCEPT !.sentence = s,
                !.keys = Append(SelectSeq(@, LAMBDA k : k # "sentence"), "sentence")]

\* rec["sentence"] = s: the value of an existing key is replaced where the
\* key stands, a new key is put behind the others
SetSentence(rec, s) ==
    [rec EXCEPT !.sentence = s,
                !.keys = IF HasKey(rec, "sentence") THEN @ ELSE Append(@, "sentence")]

\* a faulty variant of Skipped: "if vid is None: continue", the test of the sentence lost
SkippedOnIdOnly(rec) == GetVid(rec) = None

\* "if not sent or vid is None: continue"
Skipped(rec) == Len(GetSentence(rec)) = 0 \/ GetVid(rec) = None

\* the test of line 200 on one entity of the primary detector's answer
Accepted(e, min_conf) ==
    /\ normalize_type(e.Type) \in TARGET_PII_TYPES
    /\ round3(e.Score) >= min_conf

RECURSIVE FilterPrimary(_, _, _)
\* the loop of lines 196-210 over aws_entities
FilterPrimary(aws_entities, s, min_conf) ==
    IF Len(aws_entities) = 0 THEN <<>>
    ELSE LET e == Head(aws_entities)
             kept == IF Accepted(e, min_conf)
                     THEN << [Type        |-> normalize_type(e.Type),
                              Text        |-> Slice(s, e.BeginOffset, e.EndOffset),
                              Confidence  |-> round3(e.Score),
                              BeginOffset |-> e.BeginOffset,
                              EndOffset   |-> e.EndOffset,
                              Source      |-> "comprehend"] >>
                     ELSE <<>>
         IN  kept \o FilterPrimary(Tail(aws_entities), s, min_conf)

\* a faulty variant of DobMissing: the DATE_OF_BIRTH fallback runs for every record
DobAlwaysMissing(ents) == TRUE

\* "if not any(e["Type"] == "DATE_OF_BIRTH" for e in entities)"
DobMissing(ents) == \A i \in 1..Len(ents) : ents[i].Type # T_DATE_OF_BIRTH

\* 6b: the DATE_OF_BIRTH fallback
DobFallback(ents, clean_txt, min_conf) ==
    IF DobMissing(ents) THEN detect_dob_entities(clean_txt, min_conf) ELSE <<>>

\* lines 196-217: the merged entity list of one record
MergedEntities(s, aws_entities, min_conf) ==
    LET clean_txt == remove_fillers(s)
        primary   == FilterPrimary(aws_entities, s, min_conf)
    IN  primary \o DobFallback(primary, clean_txt, min_conf)
                \o extract_regex_entities(clean_txt)

RECURSIVE InsertDesc(_, _)
\* e put behind every entity of the sorted list whose BeginOffset is not smaller
InsertDesc(e, list) ==
    IF Len(list) = 0 THEN <<e>>
    ELSE IF Head(list).BeginOffset >= e.BeginOffset
         THEN <<Head(list)>> \o InsertDesc(e, Tail(list))
         ELSE <<e>> \o list

RECURSIVE SortFrom(_, _)
SortFrom(list, done) ==
    IF Len(list) = 0 THEN done
    ELSE SortFrom(Tail(list), InsertDesc(Head(list), done))

\* a faulty variant of SortedDesc: the sort without reverse=True
SortedAsc(list) ==
    LET desc == SortFrom(list, <<>>)
    IN  [k \in 1..Len(desc) |-> desc[Len(desc) + 1 - k]]

RECURSIVE InsertBeforeTies(_, _)
\* e put in front of the entities of the sorted list with the same BeginOffset
InsertBeforeTies(e, list) ==
    IF Len(list) = 0 THEN <<e>>
    ELSE IF Head(list).BeginOffset > e.BeginOffset
         THEN <<Head(list)>> \o InsertBeforeTies(e, Tail(list))
         ELSE <<e>> \o list

RECURSIVE SortTiesReversed(_, _)
SortTiesReversed(list, done) ==
    IF Len(list) = 0 THEN done
    ELSE SortTiesReversed(Tail(list), InsertBeforeTies(Head(list), done))

\* a faulty variant of SortedDesc: entities with the same BeginOffset come out
\* in the reverse of the order in which they were added
SortedDescTiesReversed(list) == SortTiesReversed(list, <<>>)

\* sorted(entities, key=lambda x: x["BeginOffset"], reverse=True): stable
SortedDesc(list) == SortFrom(list, <<>>)

\* a faulty variant of PrimaryOutcome: the exception of the primary detector is not caught
PrimaryOutcomeUncaught(answer) ==
    [raised |-> answer.failed, aws_entities |-> answer.Entities]

\* the try/except of lines 188-194: what aws_entities becomes, and whether the
\* exception leaves mask_pii_with_comprehend
PrimaryOutcome(answer) ==
    IF answer.failed
    THEN [raised |-> FALSE, aws_entities |-> <<>>]
    ELSE [raised |-> FALSE, aws_entities |-> answer.Entities]

\* a faulty variant of Splice: the end offset taken as inclusive
SpliceInclusiveEnd(s, b, e, m) == Slice(s, 0, b) \o m \o Slice(s, e + 1, Len(s))
\* a faulty variant of Splice: both offsets one too small
SpliceShifted(s, b, e, m) ==
    IF b = 0 THEN Slice(s, 0, b) \o m \o Slice(s, e, Len(s))
    ELSE Slice(s, 0, b - 1) \o m \o Slice(s, e - 1, Len(s))

\* "sent[:b] + m + sent[e:]"
Splice(s, b, e, m) == Slice(s, 0, b) \o m \o Slice(s, e, Len(s))

\* one row of audit_log (the timestamp, a reading of the clock, is left out)
AuditRow(vid, e, m) ==
    [verbatim_id |-> vid,
     pii_type    |-> e.Type,
     original    |-> e.Text,
     masked      |-> m,
     confidence  |-> e.Confidence,
     source      |-> e.Source]

-----------------------------------------------------------------------------
(* src/metrics.py: the canonical label map.                                *)

T_DOB        == <<"D","O","B">>
T_BIRTH_DATE == <<"B","I","R","T","H","_","D","A","T","E">>

\* PII_CANONICAL, as the set of its (key, value) pairs
PII_CANONICAL ==
    { <<T_DOB, T_DOB>>, <<T_DATE_OF_BIRTH, T_DOB>>, <<T_BIRTH_DATE, T_DOB>>,
      <<T_EMAIL, T_EMAIL>>, <<T_EMAIL_ADDRESS, T_EMAIL>>,
      <<T_PHONE, T_PHONE>>, <<T_PHONE_NUMBER, T_PHONE>>,
      <<T_SSN, T_SSN>> }

\* dict.get(key, default)
DictGet(dict, key, default) ==
    IF \E p \in dict : p[1] = key
    THEN (CHOOSE p \in dict : p[1] = key)[2]
    ELSE default

\* a faulty variant of _canonical: the label is looked up as it was written
CanonicalLookupAsWritten(t) == DictGet(PII_CANONICAL, t, UpperStr(t))

\* PII_CANONICAL.get(t.upper(), t.upper())
_canonical(t) == DictGet(PII_CANONICAL, UpperStr(t), UpperStr(t))

-----------------------------------------------------------------------------
(* src/metrics.py: the accuracy scorer.  A value of a JSON document or of  *)
(* a data frame is a text (k = "str") or an integer (k = "int", s its      *)
(* decimal digits).  A ratio is the exact fraction n/d; the floating-point *)
(* rounding of the division is left out.                                   *)

StrVal(s) == [k |-> "str", s |-> s]
IntVal(s) == [k |-> "int", s |-> s]

DigitSeq == <<"0","1","2","3","4","5","6","7","8","9">>
\* str(n) of an id (the ids of the model are below 10)
StrOfInt(n) == <<DigitSeq[n + 1]>>

\* the part of process_file that writes the audit CSV (src/redactor.py:251-255):
\* csv.DictWriter puts str(value) in every cell.  Of the columns only the
\* three the scorer reads are kept.
write_csv(audit) ==
    [i \in 1..Len(audit) |->
        [verbatim_id |-> StrOfInt(audit[i].verbatim_id),
         pii_type    |-> audit[i].pii_type,
         original    |-> audit[i].original]]

IsIntText(s) == Len(s) > 0 /\ \A i \in 1..Len(s) : s[i] \in Digit

RECURSIVE StripZeros(_)
\* the digits of int(s)
StripZeros(s) == IF Len(s) > 1 /\ Head(s) = "0" THEN StripZeros(Tail(s)) ELSE s

\* pandas' type inference for one column: int64 when every cell is an integer
\* text, otherwise the cells stay texts.  (The cells of the model hold no
\* decimal point, no sign and none of the texts pandas reads as missing.)
ReadColumn(cells) ==
    IF \A i \in 1..Len(cells) : IsIntText(cells[i])
    THEN [i \in 1..Len(cells) |-> IntVal(StripZeros(cells[i]))]
    ELSE [i \in 1..Len(cells) |-> StrVal(cells[i])]

\* read_csv without the type inference: every pii_type and original cell is
\* read as the text it is
read_csv_as_text(csv) ==
    [i \in 1..Len(csv) |->
        [verbatim_id |-> IntVal(StripZeros(csv[i].verbatim_id)),
         pii_type    |-> StrVal(csv[i].pii_type),
         original    |-> StrVal(csv[i].original)]]

\* pd.read_csv(StringIO(audit_csv)) if audit_csv.strip() else pd.DataFrame()
read_csv(csv) ==
    LET n     == Len(csv)
        vids  == ReadColumn([i \in 1..n |-> csv[i].verbatim_id])
        types == ReadColumn([i \in 1..n |-> csv[i].pii_type])
        origs == ReadColumn([i \in 1..n |-> csv[i].original])
    IN  [i \in 1..n |->
            [verbatim_id |-> vids[i], pii_type |-> types[i], original |-> origs[i]]]

\* \b(?:Mr|Mrs|Ms|Dr)\.\s*, re.IGNORECASE
HONORIFIC_RE ==
    Cat(<<WB,
          Alt(<<LitI(<<"M","r">>), LitI(<<"M","r","s">>), LitI(<<"M","s">>), LitI(<<"D","r">>)>>),
          Cls({"."}),
          Star(Cls(Space))>>)

RECURSIVE Without(_, _, _)
\* the characters of text from index i on that lie in no span of spans
Without(text, spans, i) ==
    IF i > Len(text) THEN <<>>
    ELSE IF \E k \in 1..Len(spans) : spans[k].b < i /\ i <= spans[k].e
         THEN Without(text, spans, i + 1)
         ELSE <<text[i]>> \o Without(text, spans, i + 1)

\* str.strip()
Strip(s) ==
    LET ink == {i \in 1..Len(s) : s[i] \notin Space}
    IN  IF ink = {} THEN <<>>
        ELSE SubSeq(s, CHOOSE i \in ink : \A j \in ink : i <= j,
                       CHOOSE i \in ink : \A j \in ink : i >= j)

\* a faulty variant of StripHonorific: only an honorific the value starts with is removed
StripLeadingHonorific(v) ==
    LET ms == finditer(HONORIFIC_RE, v)
    IN  IF Len(ms) > 0 /\ ms[1].b = 0
        THEN Strip(Without(v, <<ms[1]>>, 1))
        ELSE Strip(v)

\* HONORIFIC_RE.sub('', v).strip()
StripHonorific(v) == Strip(Without(v, finditer(HONORIFIC_RE, v), 1))

\* lines 112-119: the ground-truth set of one record
GtSet(rec) ==
    { LET e == rec.ground_truth[k]
          t == _canonical(e.type)
      IN  <<t, StrVal(IF t = T_NAME THEN StripHonorific(e.value) ELSE e.value)>> :
        k \in 1..Len(rec.ground_truth) }

\* rec["verbatim_id"] or rec["ground_truth"] raises KeyError (lines 109, 113):
\* a record of the scored file is a dict, its keys the fields it has
MissesKey(rec) == {"verbatim_id", "ground_truth"} \ DOMAIN rec # {}

\* rec["verbatim_id"], an integer of the JSON document
VidOf(rec) == IntVal(StrOfInt(rec.verbatim_id))

\* lines 122-123: the predicted set of one record
PredSet(df, vid) ==
    { <<_canonical(df[i].pii_type.s), df[i].original>> :
        i \in {j \in 1..Len(df) : df[j].verbatim_id = vid} }

\* a faulty variant of Ratio: the division without its guard (d = 0 stands for
\* the ZeroDivisionError)
RatioUnguarded(n, d) == [n |-> n, d |-> d]

\* n / d if d else 0.0
Ratio(n, d) == IF d # 0 THEN [n |-> n, d |-> d] ELSE [n |-> 0, d |-> 1]

\* line 151: 2 * precision * recall / (precision + recall) if (precision + recall) else 0.0
F1(p, r) ==
    LET sum == p.n * r.d + r.n * p.d
    IN  IF sum # 0 THEN [n |-> 2 * p.n * r.n, d |-> sum] ELSE [n |-> 0, d |-> 1]

\* lines 149-162: the row _compute_accuracy appends (the timestamp left out)
AccuracyRow(name, tp, fp, fn) ==
    LET precision == Ratio(tp, tp + fp)
        recall    == Ratio(tp, tp + fn)
    IN  [file_name |-> name, TP |-> tp, FP |-> fp, FN |-> fn,
         precision |-> precision,
         recall    |-> recall,
         f1        |-> F1(precision, recall)]

\* lines 55-65: the row record_file_metrics appends (timestamp, size and the
\* latencies left out)
FileMetricsRow(name, record_count, pii_count) ==
    [file_name   |-> name,
     records     |-> record_count,
     pii_count   |-> pii_count,
     pii_density |-> Ratio(pii_count, record_count)]

\* a faulty variant of summarize_accuracy: the first result in place of the last
summarize_first(results) ==
    IF Len(results) = 0 THEN {}
    ELSE LET first == results[1]
         IN  { <<"precision", first.precision>>,
               <<"recall",    first.recall>>,
               <<"f1_score",  first.f1>> }

\* summarize_accuracy over the store's rows: the returned dict, as the set of
\* its (key, value) pairs
summarize_accuracy(results) ==
    IF Len(results) = 0 THEN {}
    ELSE LET latest == results[Len(results)]
         IN  { <<"precision", latest.precision>>,
               <<"recall",    latest.recall>>,
               <<"f1_score",  latest.f1>> }

\* lines 82-87: the row record_text_metrics appends (timestamp and latencies
\* left out)
TextMetricsRow(pii_count) == [pii_count |-> pii_count]

RECURSIVE SumOf(_, _)
\* df[column].sum()
SumOf(rows, column) ==
    IF Len(rows) = 0 THEN 0 ELSE Head(rows)[column] + SumOf(Tail(rows), column)

RECURSIVE SumOfDensity(_)
\* df["pii_density"].sum(), as a fraction
SumOfDensity(rows) ==
    IF Len(rows) = 0 THEN [n |-> 0, d |-> 1]
    ELSE LET h == Head(rows).pii_density
             t == SumOfDensity(Tail(rows))
         IN  [n |-> h.n * t.d + t.n * h.d, d |-> h.d * t.d]

\* a faulty variant of summarize_file_metrics: the rows are counted without the first
summarize_later_files(rows) ==
    IF Len(rows) <= 1 THEN {}
    ELSE LET rest == Tail(rows)
             sum  == SumOfDensity(rest)
         IN  { <<"files_processed",    [n |-> Len(rest), d |-> 1]>>,
               <<"avg_pii_density",    [n |-> sum.n, d |-> sum.d * Len(rest)]>>,
               <<"avg_pii_per_record", Ratio(SumOf(rest, "pii_count"),
                                             SumOf(rest, "records"))>> }

\* summarize_file_metrics over the store's rows (the two latencies left out):
\* the returned dict, as the set of its (key, value) pairs, every value a fraction
summarize_file_metrics(rows) ==
    IF Len(rows) = 0 THEN {}
    ELSE LET sum == SumOfDensity(rows)
         IN  { <<"files_processed",    [n |-> Len(rows), d |-> 1]>>,
               <<"avg_pii_density",    [n |-> sum.n, d |-> sum.d * Len(rows)]>>,
               <<"avg_pii_per_record", Ratio(SumOf(rows, "pii_count"),
                                             SumOf(rows, "records"))>> }

\* summarize_text_metrics over the store's rows (the two latencies left out)
summarize_text_metrics(rows) ==
    IF Len(rows) = 0 THEN {}
    ELSE { <<"texts_processed",  [n |-> Len(rows), d |-> 1]>>,
           <<"avg_pii_per_text", Ratio(SumOf(rows, "pii_count"), Len(rows))>> }

\* _ground_truth_reports.get(file_name): the report in a sequence of one, the
\* empty sequence for None
get_ground_truth_report(reports, name) ==
    IF name \in DOMAIN reports THEN <<reports[name]>> ELSE <<>>

\* lines 175-192: the report rows of one record
ReportRowsOf(rec, df) ==
    LET pred_set == PredSet(df, VidOf(rec))
    IN  [k \in 1..Len(rec.ground_truth) |->
            LET gt_type == _canonical(rec.ground_truth[k].type)
                gt_value == rec.ground_truth[k].value
            IN  [verbatim_id        |-> rec.verbatim_id,
                 ground_truth_type  |-> gt_type,
                 ground_truth_value |-> gt_value,
                 status |-> IF <<gt_type, StrVal(gt_value)>> \in pred_set
                            THEN "correct" ELSE "missed"]]

RECURSIVE ReportFrom(_, _, _)
ReportFrom(recs, df, i) ==
    IF i > Len(recs) THEN <<>>
    ELSE ReportRowsOf(recs[i], df) \o ReportFrom(recs, df, i + 1)

\* _generate_ground_truth_report: the rows of the report, before to_csv
generate_ground_truth_report(recs, csv) == ReportFrom(recs, read_csv(csv), 1)

\* file_name.startswith(prefix)
StartsWith(s, prefix) ==
    Len(s) >= Len(prefix) /\ SubSeq(s, 1, Len(prefix)) = prefix

\* a faulty variant of IsScored: every file with an audit log is scored
IsScoredAnyName(name, csv) == Len(csv) > 0

\* line 68: "file_name.startswith("ground_truth") and raw_file_bytes and audit_csv"
IsScored(name, csv) == StartsWith(name, <<"g","r","o","u","n","d","_","t","r","u","t","h">>) /\ Len(csv) > 0

-----------------------------------------------------------------------------
(* The inputs of the pipeline: the records, the threshold, and the answers *)
(* of the primary detector (comprehend.detect_pii_entities).               *)

\* a run holds at most MaxRecords records, and records and entities reported by
\* the primary detector together are at most MaxSize
MaxRecords == 2
MaxSize == 3

Record(keys, sentence, vid) ==
    [keys |-> keys, sentence |-> sentence, verbatim_id |-> vid]

BothKeys == <<"sentence", "verbatim_id">>
IdFirst  == <<"verbatim_id", "sentence">>

RecordPool ==
    { Record(BothKeys, <<"a","@","b",".","c">>, 0),
      Record(IdFirst,  <<"u","m"," ","A","l">>, 1),
      Record(BothKeys, <<"2","0","0","1","-","0","2","-","0","3">>, 1),
      Record(BothKeys, <<"1"," ","u","m"," ","A"," ","S","t">>, 2),
      Record(IdFirst,  <<"1","2","3","-","4","5","-","6","7","8","9">>, 4),
      Record(IdFirst,  <<"5","5","5","1","2","3","4","5","6","7">>, 5),
      Record(IdFirst,  <<"J","a","n"," ","5",","," ","2","0","0","1">>, 6),
      Record(BothKeys, <<>>, 3),
      Record(<<"verbatim_id">>, <<>>, 3),
      Record(<<"sentence">>, <<"u","m"," ","A","l">>, None) }

Batches == UNION { [1..n -> RecordPool] : n \in 1..MaxRecords }

Thresholds == {5000, 6000}

\* what the primary detector may answer: entity types, scores, and spans
\* made of whole words of the text it is given
PrimaryTypes == {T_NAME, T_EMAIL_ADDRESS, T_DATE_OF_BIRTH, T_URL}
Scores == {5000, 5996}

WordStarts(text) ==
    {b \in 0..(Len(text) - 1) : text[b + 1] # " " /\ (b = 0 \/ text[b] = " ")}
WordEnds(text) ==
    {e \in 1..Len(text) : text[e] # " " /\ (e = Len(text) \/ text[e + 1] = " ")}

WordSpans(text) ==
    {sp \in WordStarts(text) \X WordEnds(text) : sp[1] < sp[2]}

PrimaryEntitySet(text) ==
    { [Type |-> t, Score |-> sc, BeginOffset |-> sp[1], EndOffset |-> sp[2]] :
        t \in PrimaryTypes, sc \in Scores, sp \in WordSpans(text) }

\* resp.get("Entities", []) of a call that returns, with at most n entities
OkAnswers(text, n) ==
    { [failed |-> FALSE, Entities |-> es] :
        es \in UNION { [1..k -> PrimaryEntitySet(text)] : k \in 0..n } }

FailedAnswer == [failed |-> TRUE, Entities |-> <<>>]

\* The cleaned text and the pattern detectors' findings depend on the sentence
\* (and the threshold) alone: they are tabulated once over the sentences of the
\* pool, each entry being the value of the operator that models the code.
PoolSentences == {GetSentence(r) : r \in RecordPool}
CleanOf  == [s \in PoolSentences |-> remove_fillers(s)]
DobOf    == [s \in PoolSentences, t \in Thresholds |->
                detect_dob_entities(CleanOf[s], t)]
RegexOf  == [s \in PoolSentences |-> extract_regex_entities(CleanOf[s])]

RECURSIVE Reported(_, _)
\* the entities the primary detector has reported to the first i records
Reported(resp, i) ==
    IF i = 0 THEN 0 ELSE Len(resp[i].Entities) + Reported(resp, i - 1)

\* how many entities the primary detector may still report in this run
PrimaryLeft(resp) == MaxSize - Len(resp) - Reported(resp, Len(resp))

-----------------------------------------------------------------------------
(* The state machine of mask_pii_with_comprehend.                          *)

FillIdle == fill_text = <<>> /\ fill_clean = <<>> /\ cleaned = FALSE
MaskIdle == value = <<>> /\ masked = <<>> /\ maskCalled = FALSE /\ remasked = <<>>
CanonIdle == label = <<>> /\ recased = <<>> /\ canon = <<>>
AppIdle ==
    /\ _text_metrics = <<>> /\ now = 0 /\ last_activity = <<>> /\ session = 0
    /\ session_metrics = <<>>
    /\ runs = <<>> /\ dashboard = <<>>
SessionIdle == summary = <<>> /\ uploads = <<>> /\ AppIdle
ScoreIdle ==
    /\ file_name = <<>> /\ data = <<>> /\ audit_csv = <<>> /\ mpc = "idle"
    /\ df_audit = <<>> /\ rec_i = 0 /\ TP = 0 /\ FP = 0 /\ FN = 0
    /\ gt = {} /\ pr = {}
    /\ _file_metrics = <<>> /\ _accuracy_results = <<>>
    /\ _ground_truth_reports = <<>>
    /\ SessionIdle
MetricsIdle == CanonIdle /\ ScoreIdle

Init ==
    /\ MaskIdle
    /\ FillIdle
    /\ MetricsIdle
    /\ records \in Batches
    /\ input = records
    /\ min_confidence \in Thresholds
    /\ idx = 1
    /\ pc = "loop"
    /\ sent = <<>>
    /\ entities = <<>>
    /\ todo = <<>>
    /\ audit_log = <<>>
    /\ responses = [i \in 1..Len(records) |-> [failed |-> FALSE, Entities |-> <<>>]]
    /\ calls = [i \in 1..Len(records) |-> 0]
    /\ merged = [i \in 1..Len(records) |-> <<>>]
    /\ trail = <<>>

\* lines 180-183: the record is skipped
SkipRecord ==
    /\ pc = "loop"
    /\ idx <= Len(records)
    /\ Skipped(records[idx])
    /\ idx' = idx + 1
    /\ UNCHANGED <<maskVars, fillVars, metricVars, records, min_confidence, pc, sent, entities, todo,
                   audit_log, input, responses, calls, merged, trail>>

\* lines 185-217 and the sort of line 220, with answer the primary detector's
\* and dob and rx what the pattern detectors find in the cleaned text
Detect(answer, dob, rx) ==
    /\ pc = "loop"
    /\ idx <= Len(records)
    /\ ~Skipped(records[idx])
    /\ LET out     == PrimaryOutcome(answer)
           primary == FilterPrimary(out.aws_entities, GetSentence(records[idx]),
                                    min_confidence)
           es      == primary \o (IF DobMissing(primary) THEN dob ELSE <<>>) \o rx
       IN  /\ calls' = [calls EXCEPT ![idx] = @ + 1]
           /\ responses' = [responses EXCEPT ![idx] = answer]
           /\ IF out.raised
              THEN /\ pc' = "raised"
                   /\ UNCHANGED <<sent, entities, todo, merged>>
              ELSE /\ pc' = "mask"
                   /\ sent' = GetSentence(records[idx])
                   /\ entities' = es
                   /\ todo' = SortedDesc(es)
                   /\ merged' = [merged EXCEPT ![idx] = es]
    /\ UNCHANGED <<maskVars, fillVars, metricVars, records, min_confidence, idx, audit_log, input, trail>>

\* the primary detector returns
DetectAnswered ==
    /\ pc = "loop"
    /\ idx <= Len(records)
    /\ LET s == GetSentence(records[idx])
       IN  \E answer \in OkAnswers(CleanOf[s], PrimaryLeft(responses)) :
               Detect(answer, DobOf[s, min_confidence], RegexOf[s])

\* the primary detector raises
DetectFailed ==
    /\ pc = "loop"
    /\ idx <= Len(records)
    /\ LET s == GetSentence(records[idx])
       IN  Detect(FailedAnswer, DobOf[s, min_confidence], RegexOf[s])

\* one turn of the loop of lines 220-231
MaskEntity ==
    /\ pc = "mask"
    /\ Len(todo) > 0
    /\ LET e == Head(todo)
           m == format_preserving_mask(e.Text)
       IN  /\ sent' = Splice(sent, e.BeginOffset, e.EndOffset, m)
           /\ audit_log' = Append(audit_log, AuditRow(GetVid(records[idx]), e, m))
           /\ trail' = Append(trail, [rec |-> idx, b |-> e.BeginOffset,
                                      e |-> e.EndOffset])
    /\ todo' = Tail(todo)
    /\ UNCHANGED <<maskVars, fillVars, metricVars, records, min_confidence, idx, pc, entities, input,
                   responses, calls, merged>>

\* line 233: rec["sentence"] = sent
StoreRecord ==
    /\ pc = "mask"
    /\ Len(todo) = 0
    /\ records' = [records EXCEPT ![idx] = SetSentence(@, sent)]
    /\ idx' = idx + 1
    /\ pc' = "loop"
    /\ UNCHANGED <<maskVars, fillVars, metricVars, min_confidence, sent, entities, todo, audit_log, input,
                   responses, calls, merged, trail>>

\* line 235: return records, audit_log
Return ==
    /\ pc = "loop"
    /\ idx > Len(records)
    /\ pc' = "done"
    /\ UNCHANGED <<maskVars, fillVars, metricVars, records, min_confidence, idx, sent, entities, todo,
                   audit_log, input, responses, calls, merged, trail>>

Next ==
    \/ SkipRecord
    \/ DetectAnswered
    \/ DetectFailed
    \/ MaskEntity
    \/ StoreRecord
    \/ Return

Spec == Init /\ [][Next]_vars

-----------------------------------------------------------------------------
(* SpecMask: format_preserving_mask applied to one span.                   *)

MaxLen == 4
\* how often the mask is applied to its own result
MaxAgain == 2

\* two letters and a digit (alphanumeric), a separator, and the mask character
MaskAlphabet == {"a", "b", "1", "-", "*"}

\* the two spans the specification gives as examples
SsnExample == <<"1","2","3","-","4","5","-","6","7","8","9">>
AbExample  == <<"a","b">>

MaskInputs ==
    UNION { [1..n -> MaskAlphabet] : n \in 0..MaxLen } \cup {SsnExample, AbExample}

PipeIdle ==
    /\ records = <<>> /\ input = <<>> /\ min_confidence = 0 /\ idx = 0
    /\ pc = "idle" /\ sent = <<>> /\ entities = <<>> /\ todo = <<>>
    /\ audit_log = <<>> /\ responses = <<>> /\ calls = <<>> /\ merged = <<>>
    /\ trail = <<>>

InitMask ==
    /\ value \in MaskInputs
    /\ masked = <<>>
    /\ maskCalled = FALSE
    /\ remasked = <<>>
    /\ FillIdle
    /\ PipeIdle
    /\ MetricsIdle

\* m = format_preserving_mask(value)
MaskCall ==
    /\ ~maskCalled
    /\ masked' = format_preserving_mask(value)
    /\ maskCalled' = TRUE
    /\ UNCHANGED <<value, remasked, fillVars, pipeVars, metricVars>>

\* format_preserving_mask applied to what it returned last
MaskAgain ==
    /\ maskCalled
    /\ Len(remasked) < MaxAgain
    /\ remasked' = Append(remasked,
           format_preserving_mask(IF Len(remasked) = 0 THEN masked
                                  ELSE remasked[Len(remasked)]))
    /\ UNCHANGED <<value, masked, maskCalled, fillVars, pipeVars, metricVars>>

NextMask ==
    \/ MaskCall
    \/ MaskAgain

SpecMask == InitMask /\ [][NextMask]_vars

-----------------------------------------------------------------------------
(* SpecFiller: remove_fillers applied to one text.                         *)

MaxTextLen == 5

\* the letters of "um", "uh" and "hmm" with one of them in upper case, and
\* the blank
FillerAlphabet == {"u", "m", "h", "M", " "}

\* texts with the other fillers, with punctuation, and with a filler inside a
\* longer word
FillerExamples ==
    { <<"e","r","m"," ","o","k">>, <<"A","h",","," ","u","h","h",".">>, <<"1","u","m"," ","u","m","_">>, <<"s","u","m"," ","a","h">>, <<"u","m"," ","A","l">> }

FillerInputs ==
    UNION { [1..n -> FillerAlphabet] : n \in 0..MaxTextLen } \cup FillerExamples

InitFiller ==
    /\ fill_text \in FillerInputs
    /\ fill_clean = <<>>
    /\ cleaned = FALSE
    /\ MaskIdle
    /\ PipeIdle
    /\ MetricsIdle

\* clean_txt = remove_fillers(sent)
RemoveFillersCall ==
    /\ ~cleaned
    /\ fill_clean' = remove_fillers(fill_text)
    /\ cleaned' = TRUE
    /\ UNCHANGED <<fill_text, maskVars, pipeVars, metricVars>>

NextFiller == RemoveFillersCall

SpecFiller == InitFiller /\ [][NextFiller]_vars

-----------------------------------------------------------------------------
(* SpecCanon: _canonical applied to a label, to its own result, and to the *)
(* label written in another letter case.                                   *)

MaxLabelLen == 3

\* letters of "DOB" in both cases, a separator and a digit
LabelAlphabet == {"d", "D", "o", "O", "b", "B", "_", "1"}

RECURSIVE Casings(_)
\* every way to write the upper-case text K in lower and upper case
Casings(K) ==
    IF Len(K) = 0 THEN {<<>>}
    ELSE {<<c>> \o r : c \in {Head(K), LowerCh(Head(K))}, r \in Casings(Tail(K))}

\* the keys of PII_CANONICAL and the pipeline's other two types, in every case
LabelInputs ==
    UNION { [1..n -> LabelAlphabet] : n \in 1..MaxLabelLen }
        \cup UNION { Casings(p[1]) : p \in PII_CANONICAL }
        \cup Casings(T_NAME) \cup Casings(T_ADDRESS)

LowerStr(s) == [i \in 1..Len(s) |-> LowerCh(s[i])]
SwapCase(s) == [i \in 1..Len(s) |-> IF s[i] \in Upper THEN LowerCh(s[i]) ELSE UpperCh(s[i])]

InitCanon ==
    /\ label \in LabelInputs
    /\ recased = <<>>
    /\ canon = <<>>
    /\ MaskIdle
    /\ FillIdle
    /\ PipeIdle
    /\ ScoreIdle

\* _canonical(label)
CanonicalCall ==
    /\ pc = "idle"
    /\ Len(label) > 0
    /\ Len(canon) = 0
    /\ canon' = <<_canonical(label)>>
    /\ UNCHANGED <<label, recased, maskVars, fillVars, pipeVars, scoreVars>>

\* _canonical(_canonical(label))
CanonicalOfResult ==
    /\ Len(canon) = 1
    /\ canon' = Append(canon, _canonical(canon[1]))
    /\ UNCHANGED <<label, recased, maskVars, fillVars, pipeVars, scoreVars>>

\* _canonical(u), with u the label in another letter case
CanonicalOfRecased ==
    /\ Len(canon) = 2
    /\ \E u \in {UpperStr(label), LowerStr(label), SwapCase(label)} :
           /\ recased' = u
           /\ canon' = Append(canon, _canonical(u))
    /\ UNCHANGED <<label, maskVars, fillVars, pipeVars, scoreVars>>

NextCanon ==
    \/ CanonicalCall
    \/ CanonicalOfResult
    \/ CanonicalOfRecased

SpecCanon == InitCanon /\ [][NextCanon]_vars

-----------------------------------------------------------------------------
(* SpecScore: record_file_metrics called once for an uploaded file, with   *)
(* the audit CSV of that file.                                             *)

MaxGtRecords == 2
MaxGt == 2
MaxRows == 2

FileNames == {<<"g","r","o","u","n","d","_","t","r","u","t","h",".","j","s","o","n">>, <<"i","n","p","u","t",".","j","s","o","n">>}
ScoreIds == {1, 2}

\* ground-truth entities: an alias in lower case, a name with an honorific
\* before it, a name with an honorific behind it, a telephone number written
\* without separators
GtEntityPool ==
    { [type |-> <<"p","h","o","n","e","_","n","u","m","b","e","r">>, value |-> <<"5","5","5","1","2","3","4","5","6","7">>],
      [type |-> <<"N","A","M","E">>,         value |-> <<"D","r","."," ","A","l">>],
      [type |-> <<"n","a","m","e">>,         value |-> <<"A","l"," ","d","r",".">>],
      [type |-> <<"D","O","B">>,          value |-> <<"2","0","0","1","-","0","2","-","0","3">>] }

GtLists == UNION { [1..n -> GtEntityPool] : n \in 0..MaxGt }
GtRecordPool == [verbatim_id : ScoreIds, ground_truth : GtLists]
GtFiles == UNION { [1..n -> GtRecordPool] : n \in 0..MaxGtRecords }

\* the audit rows mask_pii_with_comprehend appends for a name and for a
\* telephone number
ScoredEntity(type, text, source) ==
    [Type |-> type, Text |-> text, Confidence |-> 5000, BeginOffset |-> 0,
     EndOffset |-> Len(text), Source |-> source]
AuditRowPool ==
    { AuditRow(v, e, format_preserving_mask(e.Text)) :
        v \in ScoreIds,
        e \in {ScoredEntity(T_NAME, <<"A","l">>, "comprehend"),
               ScoredEntity(T_PHONE, <<"5","5","5","1","2","3","4","5","6","7">>, "regex_fallback")} }

\* the audit logs of a file: every row carries the id of one of its records
AuditLogs(recs) ==
    LET Rows == {r \in AuditRowPool :
                    \E i \in 1..Len(recs) : recs[i].verbatim_id = r.verbatim_id}
    IN  UNION { [1..n -> Rows] : n \in 0..MaxRows }

InitScore ==
    /\ file_name \in FileNames
    /\ data \in GtFiles
    /\ audit_csv \in {write_csv(a) : a \in AuditLogs(data)}
    /\ mpc = "call"
    /\ df_audit = <<>> /\ rec_i = 0 /\ TP = 0 /\ FP = 0 /\ FN = 0
    /\ gt = {} /\ pr = {}
    /\ SessionIdle
    /\ _file_metrics = <<>>
    /\ _accuracy_results = <<>>
    /\ _ground_truth_reports = <<>>
    /\ MaskIdle
    /\ FillIdle
    /\ PipeIdle
    /\ CanonIdle

\* record_file_metrics, lines 53-68, called as src/app_v2.py:229-240 calls it:
\* pii_count is the number of audit rows, record_count that of the records
RecordFileMetrics ==
    /\ mpc = "call"
    /\ _file_metrics' = Append(_file_metrics,
           FileMetricsRow(file_name, Len(data), Len(audit_csv)))
    /\ mpc' = IF IsScored(file_name, audit_csv) THEN "accuracy" ELSE "done"
    /\ UNCHANGED <<file_name, data, audit_csv, df_audit, rec_i, TP, FP, FN,
                   _accuracy_results, _ground_truth_reports, maskVars, fillVars, pipeVars,
                   canonVars, gt, pr, sessionVars>>

\* _compute_accuracy, lines 104-107
ReadAudit ==
    /\ mpc = "accuracy"
    /\ df_audit' = read_csv(audit_csv)
    /\ TP' = 0 /\ FP' = 0 /\ FN' = 0
    /\ rec_i' = 1
    /\ mpc' = "loop"
    /\ UNCHANGED <<file_name, data, audit_csv, _file_metrics, _accuracy_results,
                   _ground_truth_reports, maskVars, fillVars, pipeVars, canonVars, gt, pr, sessionVars>>

\* one turn of "for rec in data", lines 108-128
ScoreRecord ==
    /\ mpc = "loop"
    /\ rec_i <= Len(data)
    /\ ~MissesKey(data[rec_i])
    /\ gt' = GtSet(data[rec_i])
    /\ pr' = PredSet(df_audit, VidOf(data[rec_i]))
    /\ TP' = TP + Cardinality(gt' \cap pr')
    /\ FP' = FP + Cardinality(pr' \ gt')
    /\ FN' = FN + Cardinality(gt' \ pr')
    /\ rec_i' = rec_i + 1
    /\ UNCHANGED <<file_name, data, audit_csv, mpc, df_audit, _file_metrics,
                   _accuracy_results, _ground_truth_reports, maskVars, fillVars, pipeVars,
                   canonVars, sessionVars>>

\* lines 149-162
AppendAccuracy ==
    /\ mpc = "loop"
    /\ rec_i > Len(data)
    /\ _accuracy_results' = Append(_accuracy_results,
                                   AccuracyRow(file_name, TP, FP, FN))
    /\ mpc' = "report"
    /\ UNCHANGED <<file_name, data, audit_csv, df_audit, rec_i, TP, FP, FN,
                   _file_metrics, _ground_truth_reports, maskVars, fillVars, pipeVars,
                   canonVars, gt, pr, sessionVars>>

\* record_file_metrics, lines 70-71
StoreReport ==
    /\ mpc = "report"
    /\ _ground_truth_reports' =
           [f \in DOMAIN _ground_truth_reports \cup {file_name} |->
               IF f = file_name
               THEN generate_ground_truth_report(data, audit_csv)
               ELSE _ground_truth_reports[f]]
    /\ mpc' = "done"
    /\ UNCHANGED <<file_name, data, audit_csv, df_audit, rec_i, TP, FP, FN,
                   _file_metrics, _accuracy_results, maskVars, fillVars, pipeVars, canonVars, gt, pr, sessionVars>>

NextScore ==
    \/ RecordFileMetrics
    \/ ReadAudit
    \/ ScoreRecord
    \/ AppendAccuracy
    \/ StoreReport

SpecScore == InitScore /\ [][NextScore]_vars

-----------------------------------------------------------------------------
(* SpecRatio: the ratios of lines 149-151 of _compute_accuracy and of line *)
(* 55 of record_file_metrics, as functions of the counts.                  *)

MaxCount == 3

InitRatio ==
    /\ TP \in 0..MaxCount /\ FP \in 0..MaxCount /\ FN \in 0..MaxCount
    /\ file_name = <<"g","r","o","u","n","d","_","t","r","u","t","h",".","j","s","o","n">>
    /\ data = <<>> /\ audit_csv = <<>> /\ mpc = "idle"
    /\ df_audit = <<>> /\ rec_i = 0
    /\ gt = {} /\ pr = {}
    /\ SessionIdle
    /\ _file_metrics = <<>> /\ _accuracy_results = <<>>
    /\ _ground_truth_reports = <<>>
    /\ MaskIdle
    /\ FillIdle
    /\ PipeIdle
    /\ CanonIdle

\* lines 149-162 on the counts TP, FP, FN
ComputeRatios ==
    /\ Len(_accuracy_results) = 0
    /\ _accuracy_results' = Append(_accuracy_results,
                                   AccuracyRow(file_name, TP, FP, FN))
    /\ UNCHANGED <<file_name, data, audit_csv, mpc, df_audit, rec_i, TP, FP, FN,
                   _file_metrics, _ground_truth_reports, maskVars, fillVars, pipeVars,
                   canonVars, gt, pr, sessionVars>>

\* lines 55-65 on a record count and an entity count
ComputeDensity ==
    /\ Len(_file_metrics) = 0
    /\ \E record_count \in 0..MaxCount, pii_count \in 0..MaxCount :
           _file_metrics' = Append(_file_metrics,
                                   FileMetricsRow(file_name, record_count, pii_count))
    /\ UNCHANGED <<file_name, data, audit_csv, mpc, df_audit, rec_i, TP, FP, FN,
                   _accuracy_results, _ground_truth_reports, maskVars, fillVars, pipeVars,
                   canonVars, gt, pr, sessionVars>>

NextRatio ==
    \/ ComputeRatios
    \/ ComputeDensity

SpecRatio == InitRatio /\ [][NextRatio]_vars

-----------------------------------------------------------------------------
(* SpecSession: one session of the application.  Every run of the script   *)
(* with an uploaded file calls record_file_metrics for it (the same file   *)
(* again on a rerun); between the calls the dashboard reads                *)
(* summarize_accuracy.                                                     *)

MaxFiles == 2

\* the files of a session: no record or one record with id 1 and at most one
\* ground-truth entity, and an audit log of at most one row
SessionData ==
    {<<>>} \cup { <<r>> : r \in {x \in GtRecordPool :
                                   x.verbatim_id = 1 /\ Len(x.ground_truth) <= 1} }
SessionFiles ==
    UNION { { [file_name |-> n, data |-> d, audit_csv |-> write_csv(a)] :
                n \in FileNames, a \in {x \in AuditLogs(d) : Len(x) <= 1} } :
            d \in SessionData }

InitSession ==
    /\ MaskIdle
    /\ FillIdle
    /\ PipeIdle
    /\ MetricsIdle

\* src/app_v2.py:229-240: record_file_metrics is called for an uploaded file
RecordFile ==
    /\ mpc \in {"idle", "done"}
    /\ Len(uploads) < MaxFiles
    /\ \E f \in SessionFiles :
           /\ file_name' = f.file_name
           /\ data' = f.data
           /\ audit_csv' = f.audit_csv
           /\ uploads' = Append(uploads, f)
    /\ mpc' = "call"
    /\ UNCHANGED <<df_audit, rec_i, TP, FP, FN, gt, pr, _file_metrics,
                   _accuracy_results, _ground_truth_reports, summary, appVars,
                   maskVars, fillVars, pipeVars, canonVars>>

\* src/app_v2.py:456: accuracy_summary = summarize_accuracy()
SummarizeAccuracy ==
    /\ mpc \in {"idle", "done"}
    /\ summary' = << [seen   |-> Len(_accuracy_results),
                      result |-> summarize_accuracy(_accuracy_results)] >>
    /\ UNCHANGED <<file_name, data, audit_csv, mpc, df_audit, rec_i, TP, FP, FN,
                   gt, pr, _file_metrics, _accuracy_results,
                   _ground_truth_reports, uploads, appVars, maskVars, fillVars,
                   pipeVars, canonVars>>

NextSession ==
    \/ RecordFile
    \/ SummarizeAccuracy
    \/ RecordFileMetrics
    \/ ReadAudit
    \/ ScoreRecord
    \/ AppendAccuracy
    \/ StoreReport

SpecSession == InitSession /\ [][NextSession]_vars

-----------------------------------------------------------------------------
(* SpecApp: the sessions of the application (src/app_v2.py).  Every        *)
(* interaction of a session runs the script once: the session-timeout rule *)
(* of lines 38-50, then the upload of a file (record_file_metrics) or the  *)
(* redaction of a sentence (record_text_metrics) or neither, then the      *)
(* metrics dashboard of lines 436-461.  The runs are taken one at a time,  *)
(* those of different sessions in any order; all sessions are served by    *)
(* one process and so by one metrics module.                               *)

MaxRuns == 3

SESSION_TIMEOUT == 120

Sessions == {1, 2}
\* the seconds between one run of the script and the next
Gaps == {60, 121}

\* "last_activity" not in st.session_state
NoActivity == -1

\* line 44: time.time() - st.session_state.last_activity > SESSION_TIMEOUT
Expired(t, last) == t - last > SESSION_TIMEOUT

\* the four collections of st.session_state, empty.  No function of
\* src/metrics.py reads or writes st.session_state: the functions append to
\* the lists of the module (src/metrics.py:12-15), so that the collections of
\* a session never hold anything.  (_init_session_metrics, which line 38
\* calls, is imported from metrics and is not defined in src/metrics.py.)
SessionCollections ==
    [file_metrics |-> <<>>, text_metrics |-> <<>>, accuracy_results |-> <<>>,
     ground_truth_reports |-> <<>>]

\* lines 45-48: clear() on the four collections of st.session_state
ClearCollections(s) ==
    session_metrics' =
        [session_metrics EXCEPT ![s] =
            [file_metrics         |-> <<>>,
             text_metrics         |-> <<>>,
             accuracy_results     |-> <<>>,
             ground_truth_reports |-> <<>>]]

GroundTruthJson == <<"g","r","o","u","n","d","_","t","r","u","t","h",".","j","s","o","n">>
InputJson == <<"i","n","p","u","t",".","j","s","o","n">>

NameRow  == AuditRow(1, ScoredEntity(T_NAME, <<"A","l">>, "comprehend"), <<"*","*">>)
PhoneRow == AuditRow(1, ScoredEntity(T_PHONE, <<"5","5","5","1","2","3","4","5","6","7">>, "regex_fallback"),
                     <<"5","*","*","*","*","*","*","*","*","7">>)

\* the files of the sessions: a ground-truth file whose name is found, one
\* with an audit row more, one with a record that has no ground_truth list,
\* one with an empty audit log, and a file that is no ground-truth file
AppFiles ==
    { [file_name |-> GroundTruthJson,
       data      |-> << [verbatim_id |-> 1,
                         ground_truth |-> <<[type |-> T_NAME, value |-> <<"D","r","."," ","A","l">>]>>] >>,
       audit_csv |-> write_csv(<<NameRow>>)],
      [file_name |-> GroundTruthJson,
       data      |-> << [verbatim_id |-> 1,
                         ground_truth |-> <<[type |-> T_NAME, value |-> <<"A","l">>]>>] >>,
       audit_csv |-> write_csv(<<NameRow, PhoneRow>>)],
      [file_name |-> GroundTruthJson,
       data      |-> << [verbatim_id |-> 1,
                         ground_truth |-> <<[type |-> T_NAME, value |-> <<"A","l">>],
                                            [type |-> T_SSN, value |-> <<"1","2","3","-","4","5","-","6","7","8","9">>]>>],
                        [verbatim_id |-> 2] >>,
       audit_csv |-> write_csv(<<NameRow>>)],
      [file_name |-> GroundTruthJson,
       data      |-> << [verbatim_id |-> 1,
                         ground_truth |-> <<[type |-> T_NAME, value |-> <<"A","l">>]>>] >>,
       audit_csv |-> write_csv(<<>>)],
      [file_name |-> InputJson,
       data      |-> << [verbatim_id |-> 1, ground_truth |-> <<>>] >>,
       audit_csv |-> write_csv(<<NameRow, PhoneRow>>)] }

\* what a run of the script is to do
Activities ==
    { [mode |-> "call", file |-> f] : f \in AppFiles }
        \cup { [mode |-> "text", pii_count |-> 2] }
        \cup { [mode |-> "view"] }

InitApp ==
    /\ MaskIdle
    /\ FillIdle
    /\ PipeIdle
    /\ CanonIdle
    /\ file_name = <<>> /\ data = <<>> /\ audit_csv = <<>> /\ mpc = "idle"
    /\ df_audit = <<>> /\ rec_i = 0 /\ TP = 0 /\ FP = 0 /\ FN = 0
    /\ gt = {} /\ pr = {}
    /\ _file_metrics = <<>> /\ _accuracy_results = <<>>
    /\ _ground_truth_reports = <<>> /\ _text_metrics = <<>>
    /\ summary = <<>> /\ uploads = <<>>
    /\ now = 0
    /\ last_activity = [s \in Sessions |-> NoActivity]
    /\ session_metrics = [s \in Sessions |-> SessionCollections]
    /\ session = 0
    /\ runs = <<>>
    /\ dashboard = <<>>

\* lines 38-50 of a run of session s that starts gap seconds after the run
\* before it, and the mode of the run
StartRun(s, gap, act) ==
    /\ mpc \in {"idle", "raised"}
    /\ Len(runs) < MaxRuns
    /\ now' = now + gap
    /\ session' = s
    /\ IF last_activity[s] # NoActivity /\ Expired(now', last_activity[s])
       THEN ClearCollections(s)
       ELSE UNCHANGED session_metrics
    /\ last_activity' = [last_activity EXCEPT ![s] = now']
    /\ runs' = Append(runs, [session |-> s, at |-> now', act |-> act,
                             before |-> [files   |-> _file_metrics,
                                         results |-> _accuracy_results,
                                         reports |-> _ground_truth_reports]])
    /\ mpc' = IF act.mode = "view" THEN "done" ELSE act.mode
    /\ IF act.mode = "call"
       THEN /\ file_name' = act.file.file_name
            /\ data' = act.file.data
            /\ audit_csv' = act.file.audit_csv
       ELSE UNCHANGED <<file_name, data, audit_csv>>
    /\ UNCHANGED <<df_audit, rec_i, TP, FP, FN, gt, pr, _file_metrics,
                   _text_metrics, _accuracy_results, _ground_truth_reports,
                   summary, uploads, dashboard,
                   maskVars, fillVars, pipeVars, canonVars>>

\* src/app_v2.py:421-426: record_text_metrics
RecordTextMetrics ==
    /\ mpc = "text"
    /\ _text_metrics' = Append(_text_metrics,
                               TextMetricsRow(runs[Len(runs)].act.pii_count))
    /\ mpc' = "done"
    /\ UNCHANGED <<file_name, data, audit_csv, df_audit, rec_i, TP, FP, FN, gt, pr,
                   _file_metrics, _accuracy_results, _ground_truth_reports,
                   summary, uploads, now, last_activity, session_metrics, session,
                   runs, dashboard,
                   maskVars, fillVars, pipeVars, canonVars>>

\* rec["verbatim_id"] or rec["ground_truth"] raises KeyError in a turn of
\* "for rec in data" (lines 109, 113): the exception leaves _compute_accuracy,
\* record_file_metrics and the run of the script
ScoreRaises ==
    /\ mpc = "loop"
    /\ rec_i <= Len(data)
    /\ MissesKey(data[rec_i])
    /\ mpc' = "raised"
    /\ UNCHANGED <<file_name, data, audit_csv, df_audit, rec_i, TP, FP, FN, gt, pr,
                   _file_metrics, _accuracy_results, _ground_truth_reports,
                   sessionVars, maskVars, fillVars, pipeVars, canonVars>>

\* src/app_v2.py:268 and 436-461: the report of the uploaded file is looked
\* up and the dashboard shows the three summaries
Dashboard ==
    /\ mpc = "done"
    /\ Len(runs) > 0
    /\ dashboard' =
           << [by       |-> session,
               report   |-> IF runs[Len(runs)].act.mode = "call"
                            THEN get_ground_truth_report(_ground_truth_reports, file_name)
                            ELSE <<>>,
               file     |-> summarize_file_metrics(_file_metrics),
               text     |-> summarize_text_metrics(_text_metrics),
               accuracy |-> summarize_accuracy(_accuracy_results)] >>
    /\ mpc' = "idle"
    /\ UNCHANGED <<file_name, data, audit_csv, df_audit, rec_i, TP, FP, FN, gt, pr,
                   _file_metrics, _accuracy_results, _ground_truth_reports,
                   _text_metrics, summary, uploads, now, last_activity,
                   session_metrics, session,
                   runs, maskVars, fillVars, pipeVars, canonVars>>

NextApp ==
    \/ \E s \in Sessions, gap \in Gaps, act \in Activities : StartRun(s, gap, act)
    \/ RecordFileMetrics
    \/ ReadAudit
    \/ ScoreRecord
    \/ ScoreRaises
    \/ AppendAccuracy
    \/ StoreReport
    \/ RecordTextMetrics
    \/ Dashboard

SpecApp == InitApp /\ [][NextApp]_vars

-----------------------------------------------------------------------------
(* Claims.                                                                 *)

AlnumPositions(v) == {i \in 1..Len(v) : IsAlnum(v[i])}
MinOf(S) == CHOOSE x \in S : \A y \in S : x <= y
MaxOf(S) == CHOOSE x \in S : \A y \in S : x >= y

\* C1: format_preserving_mask returns a string of the same length in which
\* every non-alphanumeric character is unchanged at its position; with at most
\* 2 alphanumeric characters every alphanumeric position holds '*', otherwise
\* the first and the last alphanumeric characters are kept and every other
\* alphanumeric position holds '*'; "123-45-6789" gives "1**-**-***9" and
\* "ab" gives "**".
C1_MaskContract ==
    maskCalled =>
        LET A == AlnumPositions(value)
        IN  /\ Len(masked) = Len(value)
            /\ \A i \in 1..Len(value) : ~IsAlnum(value[i]) => masked[i] = value[i]
            /\ Cardinality(A) <= 2 => \A i \in A : masked[i] = "*"
            /\ Cardinality(A) > 2 =>
                   \A i \in A : masked[i] = IF i = MinOf(A) \/ i = MaxOf(A)
                                            THEN value[i] ELSE "*"
            /\ value = SsnExample => masked = <<"1","*","*","-","*","*","-","*","*","*","9">>
            /\ value = AbExample => masked = <<"*","*">>

\* a span with a separator before its first alphanumeric character and more
\* than 2 alphanumeric characters has been masked
C1_Witness ==
    /\ maskCalled
    /\ value = <<"-","a","1","b">>
    /\ masked = <<"-","a","*","b">>

\* the record whose turn of "for rec in records" is running or over
Recs == 1..Len(input)
Finished(i) == i < idx
\* the sentence of record i as it stands: the local sent while i is being masked
Cur(i) == IF pc = "mask" /\ i = idx THEN sent ELSE GetSentence(records[i])
Orig(i) == GetSentence(input[i])
RowsOf(i) == {k \in 1..Len(trail) : trail[k].rec = i}
InSpan(p, e) == e.BeginOffset < p /\ p <= e.EndOffset
Overlap(x, y) == x.b < y.e /\ y.b < x.e

\* C2: while one record is masked the sentence keeps exactly its original
\* length after every splice, for any list of entities (duplicates and
\* overlapping spans included), so the offsets of the entities not yet
\* processed still address positions of the sentence.
C2_LengthKept ==
    pc = "mask" =>
        /\ Len(sent) = Len(Orig(idx))
        /\ \A k \in 1..Len(todo) :
               0 <= todo[k].BeginOffset /\ todo[k].BeginOffset < todo[k].EndOffset
               /\ todo[k].EndOffset <= Len(sent)

\* two splices with overlapping spans, one of them a duplicate span, are done
\* and an entity is still to be processed
C2_Witness ==
    /\ pc = "mask"
    /\ Len(todo) > 0
    /\ \E j, k \in RowsOf(idx) : j < k /\ Overlap(trail[j], trail[k])
                                  /\ trail[j].b # trail[k].b

\* C3: every character of a record's sentence that lies outside every
\* detected entity span [begin, end) is unchanged in the masked sentence
\* (filler words outside spans included); a record for which no detector
\* returns an entity has its sentence unchanged and adds no audit row.
C3_OutsideSpansUnchanged ==
    \A i \in Recs :
        /\ Len(Cur(i)) = Len(Orig(i))
        /\ \A p \in 1..Len(Orig(i)) :
               (\A k \in 1..Len(merged[i]) : ~InSpan(p, merged[i][k]))
                   => Cur(i)[p] = Orig(i)[p]
        /\ Len(merged[i]) = 0 => Cur(i) = Orig(i) /\ RowsOf(i) = {}

\* the run is over; one record has a filler word outside its one masked span,
\* another record had no entity and went through the whole loop body
C3_Witness ==
    /\ pc = "done"
    /\ \E i, j \in Recs :
          /\ Len(merged[i]) = 1
          /\ Cur(i) # Orig(i)
          /\ \E p \in 1..Len(Orig(i)) :
                 ~InSpan(p, merged[i][1]) /\ Orig(i)[p] = "u"
          /\ calls[j] = 1 /\ Len(merged[j]) = 0 /\ Cur(j) = Orig(j)

\* the row of audit_log that masking entity e of a record with id vid appends
RowFor(vid, e) == AuditRow(vid, e, format_preserving_mask(e.Text))

\* C4: for every non-skipped record masking appends exactly one audit row per
\* entity of the merged list (duplicates included); the rows of one record
\* appear by non-increasing begin offset of their entities, and the rows of
\* different records appear in input-record order.
C4_RowsPerEntityInOrder ==
    /\ Len(trail) = Len(audit_log)
    /\ \A i \in Recs :
           Finished(i) =>
               /\ Cardinality(RowsOf(i)) = Len(merged[i])
               /\ \A k \in 1..Len(merged[i]) :
                      LET e   == merged[i][k]
                          row == RowFor(GetVid(input[i]), e)
                      IN  Cardinality({r \in RowsOf(i) :
                                          /\ audit_log[r] = row
                                          /\ trail[r].b = e.BeginOffset
                                          /\ trail[r].e = e.EndOffset})
                          = Cardinality({n \in 1..Len(merged[i]) : merged[i][n] = e})
    /\ \A j, k \in 1..Len(trail) :
           j < k => /\ trail[j].rec <= trail[k].rec
                    /\ trail[j].rec = trail[k].rec => trail[j].b >= trail[k].b

\* the run is over, both records have rows, and one record has rows of two
\* entities that begin at different offsets
C4_Witness ==
    /\ pc = "done"
    /\ RowsOf(1) # {} /\ RowsOf(2) # {}
    /\ \E i \in Recs : \E j, k \in RowsOf(i) : trail[j].b > trail[k].b

\* a record the claims call skipped: its sentence is missing or empty, or its
\* verbatim_id is missing
MissingOrEmpty(rec) ==
    \/ ~HasKey(rec, "sentence")
    \/ Len(rec.sentence) = 0
    \/ ~HasKey(rec, "verbatim_id")
    \/ rec.verbatim_id = None

\* C5: when the call to the primary detector fails with an exception the
\* record is processed as if the detector had returned no entities: no error
\* reaches the caller, the pattern detectors still run on the record, their
\* entities are masked and audited, and the remaining records are still
\* processed.  The primary detector is called exactly once per non-skipped
\* record (no retry).
C5_PrimaryFailureIsEmptyAnswer ==
    /\ pc # "raised"
    /\ (pc # "done" /\ \E i \in Recs : calls[i] = 1 /\ responses[i].failed)
           => ENABLED Next
    /\ \A i \in Recs :
           /\ calls[i] <= 1
           /\ Finished(i) => calls[i] = IF MissingOrEmpty(input[i]) THEN 0 ELSE 1
           /\ (calls[i] = 1 /\ responses[i].failed) =>
                  /\ merged[i] = MergedEntities(Orig(i), <<>>, min_confidence)
                  /\ Finished(i) => Cardinality(RowsOf(i)) = Len(merged[i])

\* the run is over; the call for the first record failed, its pattern-detected
\* entity was masked and audited, and the second record was processed too
C5_Witness ==
    /\ pc = "done"
    /\ Len(input) = 2
    /\ responses[1].failed /\ calls[1] = 1
    /\ Len(merged[1]) = 1 /\ merged[1][1].Source = "regex_fallback"
    /\ Cardinality(RowsOf(1)) = 1 /\ Cur(1) # Orig(1)
    /\ calls[2] = 1 /\ RowsOf(2) # {}

\* C6: a record whose sentence is missing or empty, or whose verbatim_id is
\* missing, is skipped entirely: no detector is called for it, no audit row
\* carries its id, its sentence is left as it was, no error is raised, and the
\* records after it are still processed.
C6_SkippedRecordUntouched ==
    /\ pc # "raised"
    /\ (pc # "done" /\ \E i \in Recs : Finished(i) /\ MissingOrEmpty(input[i]))
           => ENABLED Next
    /\ \A i \in Recs :
           MissingOrEmpty(input[i]) =>
               /\ calls[i] = 0
               /\ RowsOf(i) = {}
               /\ records[i] = input[i]
               /\ (\A j \in Recs : ~MissingOrEmpty(input[j])
                                       => GetVid(input[j]) # GetVid(input[i]))
                      => \A k \in 1..Len(audit_log) :
                             audit_log[k].verbatim_id # GetVid(input[i])
               /\ \A j \in Recs :
                      (i < j /\ pc = "done" /\ ~MissingOrEmpty(input[j]))
                          => calls[j] = 1

\* the run is over; the first record has an empty sentence and was skipped,
\* the second was processed and has an audit row
C6_Witness ==
    /\ pc = "done"
    /\ Len(input) = 2
    /\ HasKey(input[1], "sentence") /\ Len(input[1].sentence) = 0
    /\ calls[1] = 0 /\ records[1] = input[1]
    /\ calls[2] = 1 /\ RowsOf(2) # {}

\* the six target types with the two aliases the claim names mapped onto them
ClaimTargets == {T_NAME, T_ADDRESS, T_PHONE, T_EMAIL, T_DATE_OF_BIRTH, T_SSN}
ClaimNormalized(t) ==
    IF t = T_EMAIL_ADDRESS THEN T_EMAIL
    ELSE IF t = T_PHONE_NUMBER THEN T_PHONE ELSE t
\* the rows of record i that stem from the primary detector
PrimaryRows(i) == {r \in RowsOf(i) : audit_log[r].source = "comprehend"}

\* C7: an entity returned by the primary detector is masked and audited if and
\* only if its normalized type (EMAIL_ADDRESS -> EMAIL, PHONE_NUMBER -> PHONE,
\* otherwise unchanged) is in {NAME, ADDRESS, PHONE, EMAIL, DATE_OF_BIRTH, SSN}
\* and its confidence is greater than or equal to the caller's threshold.
C7_PrimaryMaskedIffTargetAndConfident ==
    \A i \in Recs :
        (Finished(i) /\ calls[i] = 1 /\ ~responses[i].failed) =>
            LET es == responses[i].Entities
                ok(e) == /\ ClaimNormalized(e.Type) \in ClaimTargets
                         /\ e.Score >= min_confidence
            IN  /\ Cardinality(PrimaryRows(i))
                       = Cardinality({k \in 1..Len(es) : ok(es[k])})
                /\ \A k \in 1..Len(es) :
                       ok(es[k]) <=>
                           \E r \in PrimaryRows(i) :
                               /\ trail[r].b = es[k].BeginOffset
                               /\ trail[r].e = es[k].EndOffset
                               /\ audit_log[r].pii_type = ClaimNormalized(es[k].Type)

\* the pattern-sourced DATE_OF_BIRTH entities of record i, and its rows of them
PatternDob(i) ==
    {k \in 1..Len(merged[i]) : /\ merged[i][k].Type = T_DATE_OF_BIRTH
                               /\ merged[i][k].Source = "regex_fallback"}
PatternDobRows(i) ==
    {r \in RowsOf(i) : /\ audit_log[r].pii_type = T_DATE_OF_BIRTH
                       /\ audit_log[r].source = "regex_fallback"}

AliasesSay(U) ==
    IF U \in {T_DATE_OF_BIRTH, T_DOB, T_BIRTH_DATE} THEN T_DOB
    ELSE IF U = T_EMAIL_ADDRESS THEN T_EMAIL
    ELSE IF U = T_PHONE_NUMBER THEN T_PHONE
    ELSE U

\* C9: _canonical is case-insensitive and maps every alias of one type to the
\* same canonical type (DATE_OF_BIRTH, DOB and BIRTH_DATE all give DOB;
\* EMAIL_ADDRESS gives EMAIL; PHONE_NUMBER gives PHONE, in any letter case); a
\* label that is not in the alias table is returned upper-cased and otherwise
\* unchanged; _canonical applied to its own result returns that result.
C9_CanonicalAliasesCaseIdempotent ==
    /\ Len(canon) >= 1 => canon[1] = AliasesSay(UpperStr(label))
    /\ Len(canon) >= 2 => canon[2] = canon[1]
    /\ Len(canon) >= 3 => canon[3] = canon[1]

\* date_of_birth, in a mix of cases, gave DOB, and so did DOB and the label
\* in another case
C9_Witness ==
    /\ Len(canon) = 3
    /\ UpperStr(label) = T_DATE_OF_BIRTH
    /\ label # T_DATE_OF_BIRTH
    /\ recased # label
    /\ canon = <<T_DOB, T_DOB, T_DOB>>

\* G_r and P_r of record r of the scored file, as pairs of texts
ClaimG(r) ==
    { LET e == data[r].ground_truth[k]
          t == _canonical(e.type)
      IN  <<t, IF t = T_NAME THEN StripHonorific(e.value) ELSE e.value>> :
        k \in 1..Len(data[r].ground_truth) }
ClaimP(r) ==
    { <<_canonical(audit_csv[i].pii_type), audit_csv[i].original>> :
        i \in {j \in 1..Len(audit_csv) :
                  audit_csv[j].verbatim_id = StrOfInt(data[r].verbatim_id)} }

RECURSIVE SumTo(_, _)
\* f[1] + ... + f[n]
SumTo(f, n) == IF n = 0 THEN 0 ELSE f[n] + SumTo(f, n - 1)

\* C10: for a scored file, with G_r the set of (canonical type, value) pairs of
\* record r's ground truth (honorific-stripped for NAME) and P_r the set of
\* (canonical type, original text) pairs of the audit rows with r's
\* verbatim_id, the recorded counts are TP = sum of |G_r intersect P_r|,
\* FP = sum of |P_r minus G_r|, FN = sum of |G_r minus P_r|; hence
\* TP + FN = sum of |G_r| and TP + FP = sum of |P_r|.
C10_CountsAreSetSizes ==
    Len(_accuracy_results) > 0 =>
        LET res == _accuracy_results[Len(_accuracy_results)]
            n   == Len(data)
            tp  == [r \in 1..n |-> Cardinality(ClaimG(r) \cap ClaimP(r))]
            fp  == [r \in 1..n |-> Cardinality(ClaimP(r) \ ClaimG(r))]
            fn  == [r \in 1..n |-> Cardinality(ClaimG(r) \ ClaimP(r))]
            g   == [r \in 1..n |-> Cardinality(ClaimG(r))]
            pp  == [r \in 1..n |-> Cardinality(ClaimP(r))]
        IN  /\ res.TP = SumTo(tp, n)
            /\ res.FP = SumTo(fp, n)
            /\ res.FN = SumTo(fn, n)
            /\ res.TP + res.FN = SumTo(g, n)
            /\ res.TP + res.FP = SumTo(pp, n)

\* C11: scoring a ground-truth file for which the redactor produced no audit
\* row records one AccuracyResult with TP = 0, FP = 0, FN = the number of
\* distinct ground-truth pairs of the file, and precision, recall and f1 0.
C11_EmptyAuditScored ==
    (/\ mpc = "done"
     /\ StartsWith(file_name, <<"g","r","o","u","n","d","_","t","r","u","t","h">>)
     /\ Len(audit_csv) = 0) =>
        /\ Len(_accuracy_results) = 1
        /\ LET res == _accuracy_results[1]
               n   == Len(data)
               g   == [r \in 1..n |-> Cardinality(ClaimG(r))]
           IN  /\ res.TP = 0 /\ res.FP = 0
               /\ res.FN = SumTo(g, n)
               /\ res.precision.n = 0 /\ res.recall.n = 0 /\ res.f1.n = 0

\* the fraction q is the quotient n / d
IsQuotient(q, n, d) == q.d # 0 /\ q.n * d = n * q.d
\* the fraction q is 0.0
IsZero(q) == q.d # 0 /\ q.n = 0

\* C12: no ratio raises on a zero denominator: precision is 0.0 when
\* TP + FP = 0, recall is 0.0 when TP + FN = 0, f1 is 0.0 when
\* precision + recall = 0, pii_density is 0.0 when the record count is 0;
\* otherwise each is the quotient TP/(TP+FP), TP/(TP+FN),
\* 2*precision*recall/(precision+recall), pii_count/record_count.
C12_RatiosGuarded ==
    /\ \A i \in 1..Len(_accuracy_results) :
           LET res == _accuracy_results[i]
               p   == res.precision
               r   == res.recall
           IN  /\ IF res.TP + res.FP = 0 THEN IsZero(p)
                  ELSE IsQuotient(p, res.TP, res.TP + res.FP)
               /\ IF res.TP + res.FN = 0 THEN IsZero(r)
                  ELSE IsQuotient(r, res.TP, res.TP + res.FN)
               /\ IF p.n = 0 /\ r.n = 0 THEN IsZero(res.f1)
                  ELSE IsQuotient(res.f1, 2 * p.n * r.n, p.n * r.d + r.n * p.d)
    /\ \A i \in 1..Len(_file_metrics) :
           LET row == _file_metrics[i]
           IN  IF row.records = 0 THEN IsZero(row.pii_density)
               ELSE IsQuotient(row.pii_density, row.pii_count, row.records)

\* both stores hold a row computed with a zero denominator and from non-zero counts
C12_Witness ==
    /\ Len(_accuracy_results) = 1 /\ Len(_file_metrics) = 1
    /\ _accuracy_results[1].TP = 0 /\ _accuracy_results[1].FP = 0
    /\ _accuracy_results[1].FN > 0
    /\ _file_metrics[1].records = 0 /\ _file_metrics[1].pii_count > 0

\* the honorific tokens of the claim, in lower case
ClaimHonorifics == {<<"m","r">>, <<"m","r","s">>, <<"m","s">>, <<"d","r">>}

RECURSIVE ClaimSkipSpace(_, _)
\* the first index from i on that holds no white space
ClaimSkipSpace(v, i) ==
    IF i <= Len(v) /\ v[i] \in Space THEN ClaimSkipSpace(v, i + 1) ELSE i

\* the index behind the honorific token (with its full stop and the white
\* space after it) that starts at index i of v, or i when none starts there
ClaimHonorificEnd(v, i) ==
    LET starts == i = 1 \/ v[i - 1] \notin WordChar
        fits   == {t \in ClaimHonorifics :
                      /\ i + Len(t) <= Len(v)
                      /\ LowerStr(SubSeq(v, i, i + Len(t) - 1)) = t
                      /\ v[i + Len(t)] = "."}
    IN  IF starts /\ fits # {}
        THEN ClaimSkipSpace(v, i + Len(CHOOSE t \in fits : TRUE) + 1)
        ELSE i

RECURSIVE ClaimNoHonorific(_, _)
\* v from index i on, every honorific token left out
ClaimNoHonorific(v, i) ==
    IF i > Len(v) THEN <<>>
    ELSE IF ClaimHonorificEnd(v, i) > i
         THEN ClaimNoHonorific(v, ClaimHonorificEnd(v, i))
         ELSE <<v[i]>> \o ClaimNoHonorific(v, i + 1)

\* v without the honorific token it starts with, if any
ClaimNoLeadingHonorific(v) == SubSeq(v, ClaimHonorificEnd(v, 1), Len(v))

\* the record _compute_accuracy compared last
Compared == data[rec_i - 1]
HasCompared == mpc \in {"loop", "report", "done"} /\ rec_i > 1

\* C13 as stated: a ground-truth value of canonical type NAME is compared with
\* a leading honorific token (Mr./Mrs./Ms./Dr., any letter case) removed and
\* is otherwise compared as given; values of other types are compared
\* unmodified.
C13_OnlyLeadingHonorificRemoved ==
    HasCompared =>
        gt = { LET e == Compared.ground_truth[k]
                   t == _canonical(e.type)
               IN  <<t, StrVal(IF t = T_NAME THEN ClaimNoLeadingHonorific(e.value)
                               ELSE e.value)>> :
                 k \in 1..Len(Compared.ground_truth) }

\* C13, amended: a ground-truth value of canonical type NAME is compared with
\* every honorific token (Mr./Mrs./Ms./Dr., any letter case, with the white
\* space after it) removed, wherever it stands in the value, and with the
\* white space around the result removed; values of other types are compared
\* unmodified.
C13_EveryHonorificRemoved ==
    HasCompared =>
        gt = { LET e == Compared.ground_truth[k]
                   t == _canonical(e.type)
               IN  <<t, StrVal(IF t = T_NAME THEN Strip(ClaimNoHonorific(e.value, 1))
                               ELSE e.value)>> :
                 k \in 1..Len(Compared.ground_truth) }

\* a record whose ground truth holds both names has been compared, both gave
\* the pair (NAME, "Al"), and it matched a predicted pair
C13_Witness ==
    /\ HasCompared
    /\ \E k \in 1..Len(Compared.ground_truth) :
           Compared.ground_truth[k].value = <<"D","r","."," ","A","l">>
    /\ \E k \in 1..Len(Compared.ground_truth) :
           Compared.ground_truth[k].value = <<"A","l"," ","d","r",".">>
    /\ gt = {<<T_NAME, StrVal(<<"A","l">>)>>}
    /\ gt \cap pr # {}

\* the recorded files whose scoring has ended
ScoringsDone ==
    {i \in 1..Len(uploads) :
        /\ IsScored(uploads[i].file_name, uploads[i].audit_csv)
        /\ (i < Len(uploads) \/ mpc \in {"report", "done"})}

\* the summary read last is that of the result that was the latest then
SummaryIsLatest ==
    Len(summary) > 0 =>
        LET s == summary[1]
        IN  IF s.seen = 0 THEN s.result = {}
            ELSE LET latest == _accuracy_results[s.seen]
                 IN  s.result = { <<"precision", latest.precision>>,
                                  <<"recall",    latest.recall>>,
                                  <<"f1_score",  latest.f1>> }

\* a step leaves the sequence of results as it is or adds one result at its end
AppendsOneResult ==
    \/ _accuracy_results' = _accuracy_results
    \/ /\ Len(_accuracy_results') = Len(_accuracy_results) + 1
       /\ SubSeq(_accuracy_results', 1, Len(_accuracy_results)) = _accuracy_results
       /\ _accuracy_results'[Len(_accuracy_results')].file_name = file_name

\* C14: each scoring of a file appends exactly one AccuracyResult to the end
\* of the session sequence and changes no earlier result; after any sequence
\* of file recordings summarize_accuracy returns the precision, recall and f1
\* of the most recently appended result, and an empty summary when nothing
\* was scored.
C14_OneResultPerScoringLatestSummarized ==
    /\ [](Len(_accuracy_results) = Cardinality(ScoringsDone))
    /\ [][AppendsOneResult]_vars
    /\ []SummaryIsLatest

\* two scorings with different results, and the summary read after the second
C14_Witness ==
    /\ Len(_accuracy_results) = 2
    /\ _accuracy_results[1].precision # _accuracy_results[2].precision
    /\ Len(summary) = 1
    /\ summary[1].seen = 2

RECURSIVE ClaimSpliced(_, _, _)
\* the sentence s after the splices of the first k audit rows, those of
\* record i applied in the order of the rows
ClaimSpliced(s, i, k) ==
    IF k = 0 THEN s
    ELSE LET before == ClaimSpliced(s, i, k - 1)
         IN  IF trail[k].rec = i
             THEN SubSeq(before, 1, trail[k].b) \o audit_log[k].masked
                      \o SubSeq(before, trail[k].e + 1, Len(before))
             ELSE before

\* C15: the redacted output holds the input records in the same number and
\* order, each with every field other than sentence equal to its input value
\* and the field order kept; the sentence of a processed record is replaced
\* by its masked text, and a skipped record is in the output unchanged.
C15_OutputIsInputWithMaskedSentences ==
    /\ Len(records) = Len(input)
    /\ \A i \in Recs :
           /\ records[i].keys = input[i].keys
           /\ records[i].verbatim_id = input[i].verbatim_id
           /\ IF Finished(i) /\ ~MissingOrEmpty(input[i]) /\ pc # "raised"
              THEN records[i].sentence = ClaimSpliced(Orig(i), i, Len(audit_log))
              ELSE records[i] = input[i]

\* the run has returned two records: the first was processed and its sentence,
\* which is not its last field, differs from the input's; the second was skipped
C15_Witness ==
    /\ pc = "done"
    /\ Len(input) = 2
    /\ input[1].keys = BothKeys
    /\ records[1].sentence # input[1].sentence
    /\ MissingOrEmpty(input[2])
    /\ records[2] = input[2]

\* C16 as stated: the masking rule is idempotent, the mask applied to a span
\* that is already a result of the mask returns that span unchanged.
C16_MaskIdempotent ==
    Len(remasked) > 0 => remasked[1] = masked

\* C16, amended: the mask applied to its own result keeps the length, every
\* mask character and every other non-alphanumeric character; it returns the
\* result unchanged when the span held at most two alphanumeric characters,
\* and otherwise stars the two characters the first application kept; from
\* the second application on nothing changes any more.
C16_MaskSettlesAfterSecond ==
    \A k \in 1..Len(remasked) :
        LET prev == IF k = 1 THEN masked ELSE remasked[k - 1]
            cur  == remasked[k]
            many == Cardinality(AlnumPositions(value)) > 2
        IN  /\ Len(cur) = Len(prev)
            /\ \A i \in 1..Len(prev) : ~IsAlnum(prev[i]) => cur[i] = prev[i]
            /\ (k = 1 /\ many) =>
                   /\ \A i \in AlnumPositions(prev) : cur[i] = "*"
                   /\ cur # prev
            /\ (k > 1 \/ ~many) => cur = prev

\* a span of more than two alphanumeric characters has been masked three times
C16_Witness ==
    /\ Cardinality(AlnumPositions(value)) > 2
    /\ Len(remasked) = 2
    /\ remasked[1] # masked
    /\ remasked[2] = remasked[1]

\* the patterns of the EMAIL, PHONE, SSN and ADDRESS detectors with their types
ClaimPatterns ==
    << [pattern |-> EMAIL_PATTERN, ptype |-> T_EMAIL],
       [pattern |-> PHONE_PATTERN, ptype |-> T_PHONE],
       [pattern |-> SSN_PATTERN,   ptype |-> T_SSN] >>
    \o [k \in 1..Len(ADDRESS_PATTERNS) |->
           [pattern |-> ADDRESS_PATTERNS[k], ptype |-> T_ADDRESS]]

\* the matches of pattern p in the cleaned sentence of record i
ClaimMatches(i, p) == finditer(ClaimPatterns[p].pattern, CleanOf[Orig(i)])

\* the audit rows of record i for the span sp, of type t and source src
ClaimRowsAt(i, sp, t, src) ==
    {k \in RowsOf(i) : /\ trail[k].b = sp.b /\ trail[k].e = sp.e
                       /\ audit_log[k].pii_type = t
                       /\ audit_log[k].source = src}

\* record i was processed and its masking is over
Processed(i) == Finished(i) /\ ~MissingOrEmpty(input[i]) /\ pc # "raised"

\* C17: the EMAIL, PHONE, SSN and ADDRESS pattern detectors run on every
\* non-skipped record whatever the primary detector returned and whatever the
\* threshold is: every pattern match is an entity of the merged list with the
\* pattern source and confidence 0.5, and it is masked and audited, also when
\* the threshold is above 0.5 and also when the primary detector reported the
\* same span, which then has two audit rows.
C17_PatternMatchesAlwaysMasked ==
    \A i \in Recs :
        Processed(i) =>
            LET clean == CleanOf[Orig(i)]
            IN  \A p \in 1..Len(ClaimPatterns) :
                    \A j \in 1..Len(ClaimMatches(i, p)) :
                        LET sp   == ClaimMatches(i, p)[j]
                            t    == ClaimPatterns[p].ptype
                            text == Slice(clean, sp.b, sp.e)
                            ent  == [Type |-> t, Text |-> text, Confidence |-> 5000,
                                     BeginOffset |-> sp.b, EndOffset |-> sp.e,
                                     Source |-> "regex_fallback"]
                        IN  /\ \E k \in 1..Len(merged[i]) : merged[i][k] = ent
                            /\ \E k \in ClaimRowsAt(i, sp, t, "regex_fallback") :
                                   /\ audit_log[k].original = text
                                   /\ audit_log[k].confidence = 5000
                                   /\ audit_log[k].masked = format_preserving_mask(text)
                                   /\ audit_log[k].verbatim_id = GetVid(input[i])
                            /\ (\E k \in 1..Len(responses[i].Entities) :
                                   LET e == responses[i].Entities[k]
                                   IN  /\ Accepted(e, min_confidence)
                                       /\ normalize_type(e.Type) = t
                                       /\ e.BeginOffset = sp.b /\ e.EndOffset = sp.e)
                                   => ClaimRowsAt(i, sp, t, "comprehend") # {}

\* with the threshold above 0.5 the primary detector reported the e-mail
\* address of a record, and the run has masked the address twice
C17_Witness ==
    /\ pc = "done"
    /\ min_confidence = 6000
    /\ \E i \in Recs :
           /\ Orig(i) = <<"a","@","b",".","c">>
           /\ ClaimRowsAt(i, [b |-> 0, e |-> 5], T_EMAIL, "regex_fallback") # {}
           /\ ClaimRowsAt(i, [b |-> 0, e |-> 5], T_EMAIL, "comprehend") # {}

\* C18: on the DOB pattern-fallback path the acceptance filter is applied: a
\* DATE_OF_BIRTH entity found by the DOB pattern detector is masked and
\* audited only if accept_entity holds for it, and a fallback match the
\* filter rejects is never masked.
C18_FallbackDobFiltered ==
    \A i \in Recs :
        \A k \in PatternDobRows(i) :
            accept_entity([Type |-> audit_log[k].pii_type,
                           Text |-> audit_log[k].original])

\* what the claim's secondary detector may return for a cleaned text: no
\* entity, or one entity of the category mapped to NAME or of a category
\* mapped to ADDRESS, spanning whole words
ClaimSecondaryAnswers(text) ==
    {<<>>} \cup { <<[Type |-> t, BeginOffset |-> sp[1], EndOffset |-> sp[2]]>> :
                    t \in {T_NAME, T_ADDRESS}, sp \in WordSpans(text) }

\* the entities of the merged list of record i that stem neither from the
\* primary detector nor from a pattern
ClaimSecondaryEntities(i) ==
    {k \in 1..Len(merged[i]) :
        merged[i][k].Source \notin {"comprehend", "regex_fallback"}}

\* C19: for every non-skipped record the secondary local NER detector is run
\* over the cleaned text, whatever the primary detector returned (also when it
\* failed) and without a threshold, and its entities, mapped to NAME or
\* ADDRESS and tagged with the secondary source, are part of the merged
\* entity list that is masked and audited.
C19_SecondaryEntitiesMerged ==
    \A i \in Recs :
        Processed(i) =>
            \A answer \in ClaimSecondaryAnswers(CleanOf[Orig(i)]) :
                \A j \in 1..Len(answer) :
                    \E k \in ClaimSecondaryEntities(i) :
                        /\ merged[i][k].Type = answer[j].Type
                        /\ merged[i][k].BeginOffset = answer[j].BeginOffset
                        /\ merged[i][k].EndOffset = answer[j].EndOffset


\* the lower-case word w is u, h and m, u, a or e and r, followed by the
\* letter last, once or more often
ClaimShape(w, first, last) ==
    /\ Len(w) > Len(first)
    /\ SubSeq(w, 1, Len(first)) = first
    /\ \A k \in (Len(first) + 1)..Len(w) : w[k] = last

\* w is a filler token: um+, hmm+, uh+, ah+ or erm+ in any letter case
ClaimIsFiller(w) ==
    LET l == LowerStr(w)
    IN  \/ ClaimShape(l, <<"u">>, "m")
        \/ ClaimShape(l, <<"h","m">>, "m")
        \/ ClaimShape(l, <<"u">>, "h")
        \/ ClaimShape(l, <<"a">>, "h")
        \/ ClaimShape(l, <<"e","r">>, "m")

\* the word of t that index i lies in: the longest run of word characters around i
ClaimWordStart(t, i) ==
    CHOOSE b \in 1..i : /\ \A k \in b..i : t[k] \in WordChar
                        /\ (b = 1 \/ t[b - 1] \notin WordChar)
ClaimWordEnd(t, i) ==
    CHOOSE e \in i..Len(t) : /\ \A k \in i..e : t[k] \in WordChar
                             /\ (e = Len(t) \/ t[e + 1] \notin WordChar)
ClaimInFiller(t, i) ==
    /\ t[i] \in WordChar
    /\ ClaimIsFiller(SubSeq(t, ClaimWordStart(t, i), ClaimWordEnd(t, i)))

\* C20: remove_fillers returns a text of exactly the input's length in which
\* every character that is not part of a filler token is unchanged at its
\* position and every character of a filler token is a space, so that an
\* offset pair computed on the cleaned text addresses the same positions of
\* the original sentence.
C20_FillersBlankedInPlace ==
    cleaned =>
        /\ Len(fill_clean) = Len(fill_text)
        /\ \A i \in 1..Len(fill_text) :
               fill_clean[i] = IF ClaimInFiller(fill_text, i) THEN " " ELSE fill_text[i]

\* a text with two fillers in different letter cases and punctuation between
\* and behind them has been cleaned
C20_Witness ==
    /\ cleaned
    /\ fill_text = <<"A","h",","," ","u","h","h",".">>
    /\ fill_clean = <<" "," ",","," "," "," "," ",".">>

RECURSIVE ClaimSpansFrom(_)
\* the ground-truth spans of the scored file from record r on, in the order of
\* the document: for each, its record and its place in the record's list
ClaimSpansFrom(r) ==
    IF r > Len(data) THEN <<>>
    ELSE [k \in 1..Len(data[r].ground_truth) |-> [r |-> r, k |-> k]]
         \o ClaimSpansFrom(r + 1)

\* the pair the scorer compares for a ground-truth span, and whether the
\* scorer counts the span as a true positive
ClaimScoredPair(sp) ==
    LET e == data[sp.r].ground_truth[sp.k]
        t == _canonical(e.type)
    IN  <<t, StrVal(IF t = T_NAME THEN StripHonorific(e.value) ELSE e.value)>>
ClaimTruePositive(sp) ==
    ClaimScoredPair(sp) \in PredSet(read_csv(audit_csv), VidOf(data[sp.r]))

\* the ground-truth spans of every record are distinct
ClaimSpansDistinct ==
    \A r \in 1..Len(data) :
        \A j, k \in 1..Len(data[r].ground_truth) :
            j # k => data[r].ground_truth[j] # data[r].ground_truth[k]

\* C21: the ground-truth report is derived from the same comparison as the
\* score: it has one row per ground-truth span of each record, a span is
\* marked correct exactly when the scorer counts it as a true positive and
\* missed exactly when the scorer counts it as a false negative; for a file
\* whose ground-truth spans are distinct per record the number of correct
\* rows is TP and the number of missed rows is FN.
C21_ReportFollowsScore ==
    (mpc = "done" /\ IsScored(file_name, audit_csv)) =>
        LET report == _ground_truth_reports[file_name]
            spans  == ClaimSpansFrom(1)
            res    == _accuracy_results[Len(_accuracy_results)]
            rows(status) == {n \in 1..Len(report) : report[n].status = status}
        IN  /\ Len(report) = Len(spans)
            /\ \A n \in 1..Len(spans) :
                   /\ report[n].verbatim_id = data[spans[n].r].verbatim_id
                   /\ report[n].status =
                          IF ClaimTruePositive(spans[n]) THEN "correct" ELSE "missed"
            /\ ClaimSpansDistinct =>
                   /\ Cardinality(rows("correct")) = res.TP
                   /\ Cardinality(rows("missed")) = res.FN

\* the run of the script that is the latest, and whether it called
\* record_file_metrics for a ground-truth file
LatestRun == runs[Len(runs)]
ClaimGroundTruthCall ==
    /\ Len(runs) > 0
    /\ LatestRun.act.mode = "call"
    /\ StartsWith(file_name, <<"g","r","o","u","n","d","_","t","r","u","t","h">>)

\* the records of a file that carry a ground_truth list
ClaimWithGroundTruth(recs) == SelectSeq(recs, LAMBDA rec : "ground_truth" \in DOMAIN rec)

\* the AccuracyResult of a file as the scorer computes it from the records recs
ClaimResult(name, recs, csv) ==
    LET df == read_csv(csv)
        n  == Len(recs)
        tp == [r \in 1..n |-> Cardinality(GtSet(recs[r]) \cap PredSet(df, VidOf(recs[r])))]
        fp == [r \in 1..n |-> Cardinality(PredSet(df, VidOf(recs[r])) \ GtSet(recs[r]))]
        fn == [r \in 1..n |-> Cardinality(GtSet(recs[r]) \ PredSet(df, VidOf(recs[r])))]
    IN  AccuracyRow(name, SumTo(tp, n), SumTo(fp, n), SumTo(fn, n))

\* C22: the scorer scores only the records that carry a ground_truth list: a
\* record of the scored file without one contributes nothing to TP, FP or FN
\* and raises no error, and the file's AccuracyResult is still appended, from
\* the other records.
C22_RecordsWithoutGroundTruthSkipped ==
    /\ mpc # "raised"
    /\ (mpc = "done" /\ ClaimGroundTruthCall /\ Len(audit_csv) > 0) =>
           /\ Len(_accuracy_results) = Len(LatestRun.before.results) + 1
           /\ _accuracy_results[Len(_accuracy_results)]
                  = ClaimResult(file_name, ClaimWithGroundTruth(data), audit_csv)

\* the time of the activity of run i's session before run i, if any (rs the
\* runs so far)
ClaimPriorRuns(rs, i) == {j \in 1..(i - 1) : rs[j].session = rs[i].session}
\* run i arrived more than the inactivity window of 120 seconds after the
\* last activity of its session
ClaimTimedOut(rs, i) ==
    /\ ClaimPriorRuns(rs, i) # {}
    /\ rs[i].at - rs[MaxOf(ClaimPriorRuns(rs, i))].at > 120

\* the runs from the latest timeout on: what they recorded is what may be
\* in the collections
ClaimSince ==
    LET T == {i \in 1..Len(runs) : ClaimTimedOut(runs, i)}
    IN  (IF T = {} THEN 1 ELSE MaxOf(T))..Len(runs)
\* the runs among them whose call of the recording function has appended
ClaimRecorded(mode) ==
    {j \in ClaimSince : /\ runs[j].act.mode = mode
                        /\ (j < Len(runs) \/ mpc # mode)}
ClaimGroundTruthRuns ==
    {j \in ClaimRecorded("call") :
        StartsWith(runs[j].act.file.file_name,
                   <<"g","r","o","u","n","d","_","t","r","u","t","h">>)}

\* the n-th smallest element of the set S of numbers
ClaimNth(S, n) == CHOOSE x \in S : Cardinality({y \in S : y <= x}) = n

\* a step that starts a run clears the four collections when the run timed
\* out and leaves them as they are when it did not
ClaimTimeoutStep ==
    Len(runs') > Len(runs) =>
        IF ClaimTimedOut(runs', Len(runs'))
        THEN /\ _file_metrics' = <<>> /\ _text_metrics' = <<>>
             /\ _accuracy_results' = <<>> /\ DOMAIN _ground_truth_reports' = {}
        ELSE /\ _file_metrics' = _file_metrics /\ _text_metrics' = _text_metrics
             /\ _accuracy_results' = _accuracy_results
             /\ _ground_truth_reports' = _ground_truth_reports

\* the dashboard on the screen is that of the latest run
ClaimDashboardShown == mpc = "idle" /\ Len(dashboard) = 1

\* the collections, and the summaries and the report lookup of the dashboard,
\* hold only what the runs from the latest timeout on recorded
ClaimOnlySinceTimeout ==
    /\ Len(_file_metrics) = Cardinality(ClaimRecorded("call"))
    /\ \A k \in 1..Len(_file_metrics) :
           LET f == runs[ClaimNth(ClaimRecorded("call"), k)].act.file
           IN  /\ _file_metrics[k].file_name = f.file_name
               /\ _file_metrics[k].records = Len(f.data)
               /\ _file_metrics[k].pii_count = Len(f.audit_csv)
    /\ Len(_text_metrics) = Cardinality(ClaimRecorded("text"))
    /\ Len(_accuracy_results) <= Cardinality(ClaimGroundTruthRuns)
    /\ \A name \in DOMAIN _ground_truth_reports :
           \E j \in ClaimGroundTruthRuns : runs[j].act.file.file_name = name
    /\ ClaimDashboardShown =>
           LET d == dashboard[1]
           IN  /\ d.file = {} <=> ClaimRecorded("call") = {}
               /\ \A p \in d.file :
                      p[1] = "files_processed" =>
                          p[2] = [n |-> Cardinality(ClaimRecorded("call")), d |-> 1]
               /\ d.text = {} <=> ClaimRecorded("text") = {}
               /\ \A p \in d.text :
                      p[1] = "texts_processed" =>
                          p[2] = [n |-> Cardinality(ClaimRecorded("text")), d |-> 1]
               /\ d.accuracy # {} => ClaimGroundTruthRuns # {}
               /\ d.report # <<>> => ClaimGroundTruthRuns # {}

\* C23: when an interaction arrives more than the inactivity window (120 s)
\* after the last activity of its session, all four collections of the
\* metrics functions (file metrics, text metrics, accuracy results,
\* ground-truth reports) are empty before the interaction records anything,
\* so the summaries and report lookups that follow reflect only what was
\* recorded after the timeout; an interaction within the window clears
\* nothing.
C23_TimeoutClearsCollections ==
    /\ [][ClaimTimeoutStep]_vars
    /\ []ClaimOnlySinceTimeout

\* the sequence a is a prefix of the sequence b
ClaimPrefix(a, b) == Len(a) <= Len(b) /\ SubSeq(b, 1, Len(a)) = a

\* what a step of a call may do to the three collections: the step of
\* record_file_metrics that records the file (from "call"), the steps of its
\* scoring, the step of record_text_metrics (from "text") and the step of the
\* summaries and the report lookup of the dashboard (from "done")
ClaimAppendOnlyStep ==
    /\ ClaimPrefix(_file_metrics, _file_metrics')
    /\ ClaimPrefix(_text_metrics, _text_metrics')
    /\ ClaimPrefix(_accuracy_results, _accuracy_results')
    /\ mpc = "call" =>
           /\ Len(_file_metrics') = Len(_file_metrics) + 1
           /\ _text_metrics' = _text_metrics
    /\ mpc \in {"accuracy", "loop", "report"} =>
           /\ _file_metrics' = _file_metrics
           /\ _text_metrics' = _text_metrics
           /\ Len(_accuracy_results') <= Len(_accuracy_results) + 1
    /\ mpc = "text" =>
           /\ Len(_text_metrics') = Len(_text_metrics) + 1
           /\ _file_metrics' = _file_metrics
           /\ _accuracy_results' = _accuracy_results
    /\ mpc = "done" =>
           /\ _file_metrics' = _file_metrics
           /\ _text_metrics' = _text_metrics
           /\ _accuracy_results' = _accuracy_results
    /\ _accuracy_results' # _accuracy_results =>
           StartsWith(file_name, <<"g","r","o","u","n","d","_","t","r","u","t","h">>)

\* a call of record_file_metrics that is over, returned or raised, has added
\* one file record to what the collection held before it, and at most one
\* accuracy result, none for a file that is no ground-truth file
ClaimOneFileRecord ==
    (Len(runs) > 0 /\ LatestRun.act.mode = "call" /\ mpc \in {"done", "raised", "idle"}) =>
        /\ Len(_file_metrics) = Len(LatestRun.before.files) + 1
        /\ ClaimPrefix(LatestRun.before.files, _file_metrics)
        /\ _file_metrics[Len(_file_metrics)].file_name = LatestRun.act.file.file_name
        /\ ClaimPrefix(LatestRun.before.results, _accuracy_results)
        /\ Len(_accuracy_results) <= Len(LatestRun.before.results) + 1
        /\ ~StartsWith(LatestRun.act.file.file_name, <<"g","r","o","u","n","d","_","t","r","u","t","h">>) =>
               _accuracy_results = LatestRun.before.results

\* C24: the file-metrics, text-metrics and accuracy-result collections are
\* append-only: after any call of record_file_metrics, record_text_metrics or
\* a summary or retrieval function the previous contents of each collection
\* are an unchanged prefix of the new contents; record_file_metrics appends
\* exactly one file record and leaves the text metrics unchanged,
\* record_text_metrics appends exactly one text record and leaves the other
\* collections unchanged, the summary functions change nothing, and the
\* accuracy results change only when the recorded file is a ground-truth
\* file.
C24_CollectionsAppendOnly ==
    /\ [][ClaimAppendOnlyStep]_vars
    /\ []ClaimOneFileRecord

\* three calls are over: a scored ground-truth file, a file that is no
\* ground-truth file, and a sentence; the dashboard has been shown
C24_Witness ==
    /\ mpc = "idle" /\ Len(dashboard) = 1
    /\ Len(runs) = 3
    /\ runs[1].act.mode = "call" /\ runs[1].act.file.file_name = GroundTruthJson
    /\ runs[2].act.mode = "call" /\ runs[2].act.file.file_name = InputJson
    /\ runs[3].act.mode = "text"
    /\ Len(_file_metrics) = 2
    /\ _file_metrics[2].file_name = InputJson
    /\ Len(_accuracy_results) = 1
    /\ Len(_text_metrics) = 1

\* the runs, of any session, whose call of the recording function has appended
ClaimEveryRecorded(mode) ==
    {j \in 1..Len(runs) : /\ runs[j].act.mode = mode
                          /\ (j < Len(runs) \/ mpc # mode)}
\* the runs, of any session, whose file was scored and whose scoring returned
ClaimScoredRuns ==
    {j \in ClaimEveryRecorded("call") :
        LET f == runs[j].act.file
        IN  /\ StartsWith(f.file_name, <<"g","r","o","u","n","d","_","t","r","u","t","h">>)
            /\ Len(f.audit_csv) > 0
            /\ \A r \in 1..Len(f.data) :
                   {"verbatim_id", "ground_truth"} \subseteq DOMAIN f.data[r]}
\* the runs of the session s
ClaimRunsOf(s) == {j \in 1..Len(runs) : runs[j].session = s}

\* C25: the metrics collections are not scoped by session: when two sessions
\* of one process interleave their runs, the records appended by one session
\* are visible to the other; the summaries shown to a session count the files
\* and the sentences recorded by every session, and its summarize_accuracy
\* returns the latest result whichever session appended it.
C25_CollectionsSharedBySessions ==
    ClaimDashboardShown =>
        LET d == dashboard[1]
        IN  /\ d.file = {} <=> ClaimEveryRecorded("call") = {}
            /\ d.file # {} =>
                   <<"files_processed",
                     [n |-> Cardinality(ClaimEveryRecorded("call")), d |-> 1]>> \in d.file
            /\ d.text = {} <=> ClaimEveryRecorded("text") = {}
            /\ d.text # {} =>
                   <<"texts_processed",
                     [n |-> Cardinality(ClaimEveryRecorded("text")), d |-> 1]>> \in d.text
            /\ d.accuracy = {} <=> ClaimScoredRuns = {}
            /\ d.accuracy # {} =>
                   LET f == runs[MaxOf(ClaimScoredRuns)].act.file
                       r == ClaimResult(f.file_name, f.data, f.audit_csv)
                   IN  d.accuracy = { <<"precision", r.precision>>,
                                      <<"recall", r.recall>>,
                                      <<"f1_score", r.f1>> }

\* the dashboard of a session that recorded nothing itself shows the file, the
\* sentence and the accuracy result that the other session recorded
C25_Witness ==
    /\ ClaimDashboardShown
    /\ Len(runs) = 3
    /\ dashboard[1].by = 2
    /\ runs[3].act.mode = "view"
    /\ ClaimRunsOf(2) = {3}
    /\ ClaimScoredRuns \cap ClaimRunsOf(1) # {}
    /\ ClaimEveryRecorded("text") \cap ClaimRunsOf(1) # {}
    /\ dashboard[1].accuracy # {}
    /\ dashboard[1].file # {}
    /\ dashboard[1].text # {}

\* C30: record_file_metrics is all-or-nothing for a ground-truth file: when
\* the accuracy scoring or the report generation raises (as on a record
\* without verbatim_id or ground_truth), the call leaves the file-metrics
\* collection, the accuracy results and the ground-truth reports as they were
\* before the call; when it returns, the file record, the accuracy result and
\* the report for that file name have all three been recorded.
C30_RecordFileMetricsAllOrNothing ==
    /\ (mpc = "raised" /\ ClaimGroundTruthCall) =>
           /\ _file_metrics = LatestRun.before.files
           /\ _accuracy_results = LatestRun.before.results
           /\ _ground_truth_reports = LatestRun.before.reports
    /\ (mpc = "done" /\ ClaimGroundTruthCall) =>
           /\ Len(_file_metrics) = Len(LatestRun.before.files) + 1
           /\ _file_metrics[Len(_file_metrics)].file_name = file_name
           /\ Len(_accuracy_results) = Len(LatestRun.before.results) + 1
           /\ _accuracy_results[Len(_accuracy_results)].file_name = file_name
           /\ file_name \in DOMAIN _ground_truth_reports

\* the positions (from 1) of the sentence of record i that lie in the span
\* of the entity e strictly between the span's first and last alphanumeric
\* characters and hold an alphanumeric character
ClaimInnerPositions(i, e) ==
    LET A == {p \in (e.BeginOffset + 1)..e.EndOffset : IsAlnum(Orig(i)[p])}
    IN  {p \in A : MinOf(A) < p /\ p < MaxOf(A)}

\* C26: once a record has been masked, for every entity of its merged list,
\* no position of the final sentence that lies in the entity's span strictly
\* between the span's first and last alphanumeric characters holds its
\* original alphanumeric character, also when spans overlap: the splice of
\* an entity processed later never restores a character that an entity
\* processed earlier had masked.
C26_MaskedCharactersStayMasked ==
    \A i \in 1..Len(records) :
        Processed(i) =>
            \A k \in 1..Len(merged[i]) :
                \A p \in ClaimInnerPositions(i, merged[i][k]) :
                    Cur(i)[p] # Orig(i)[p]

\* in the list es the entity j is processed before the entity k: its begin
\* offset is larger, or it is the same and j was added earlier
ClaimBefore(es, j, k) ==
    \/ es[j].BeginOffset > es[k].BeginOffset
    \/ es[j].BeginOffset = es[k].BeginOffset /\ j < k
\* the entity of es that is processed as the n-th
ClaimAt(es, n) ==
    CHOOSE k \in 1..Len(es) :
        Cardinality({j \in 1..Len(es) : ClaimBefore(es, j, k)}) = n - 1

\* the entities of a processed record were processed, and their audit rows
\* written, by descending begin offset and for equal begin offsets in the order
\* of the merged list
ClaimTieOrder ==
    \A i \in 1..Len(records) :
        Processed(i) =>
            /\ Cardinality(RowsOf(i)) = Len(merged[i])
            /\ \A n \in 1..Len(merged[i]) :
                   LET e == merged[i][ClaimAt(merged[i], n)]
                       r == ClaimNth(RowsOf(i), n)
                   IN  /\ trail[r].b = e.BeginOffset /\ trail[r].e = e.EndOffset
                       /\ audit_log[r].pii_type = e.Type
                       /\ audit_log[r].original = e.Text
                       /\ audit_log[r].confidence = e.Confidence
                       /\ audit_log[r].source = e.Source

\* the entities of the merged list of record i that were added last among
\* those with their begin offset, and are not alone with it
ClaimLastOfTies(i) ==
    {k \in 1..Len(merged[i]) :
        /\ \E j \in 1..(k - 1) : merged[i][j].BeginOffset = merged[i][k].BeginOffset
        /\ \A j \in (k + 1)..Len(merged[i]) :
               merged[i][j].BeginOffset # merged[i][k].BeginOffset}
\* the positions (from 1) that the entities with the begin offset of entity k
\* of record i share
ClaimSharedPositions(i, k) ==
    {p \in 1..Len(Orig(i)) :
        \A j \in 1..Len(merged[i]) :
            merged[i][j].BeginOffset = merged[i][k].BeginOffset =>
                InSpan(p, merged[i][j])}
\* the position p lies in the span of an entity of record i that begins
\* before entity k and so is spliced after it
ClaimCoveredLater(i, k, p) ==
    \E j \in 1..Len(merged[i]) :
        /\ merged[i][j].BeginOffset < merged[i][k].BeginOffset
        /\ InSpan(p, merged[i][j])
\* the character that the mask of entity k of record i puts at position p
ClaimMaskAt(i, k, p) ==
    format_preserving_mask(merged[i][k].Text)[p - merged[i][k].BeginOffset]

\* C27 as stated: entities that share a begin offset are processed, and their
\* audit rows emitted, in the order in which they were added to the merged
\* list (primary, then DOB fallback, then EMAIL, PHONE, SSN, ADDRESS), so
\* the masked sentence and the audit-row order are determined by the detector
\* outputs, and the entity added last decides the final content of the shared
\* positions.
C27_LastAddedDecidesSharedPositions ==
    /\ ClaimTieOrder
    /\ \A i \in 1..Len(records) :
           Processed(i) =>
               \A k \in ClaimLastOfTies(i) :
                   \A p \in ClaimSharedPositions(i, k) :
                       Cur(i)[p] = ClaimMaskAt(i, k, p)

\* C27, amended: the order is as stated, and the entity added last among
\* those that share a begin offset decides the final content of every shared
\* position that no entity with a smaller begin offset, spliced after it,
\* covers.
C27_LastAddedDecidesUnlessCoveredLater ==
    /\ ClaimTieOrder
    /\ \A i \in 1..Len(records) :
           Processed(i) =>
               \A k \in ClaimLastOfTies(i) :
                   \A p \in ClaimSharedPositions(i, k) :
                       ~ClaimCoveredLater(i, k, p) =>
                           Cur(i)[p] = ClaimMaskAt(i, k, p)

\* a processed record with two entities of the same begin offset whose masks
\* differ at a shared position that no entity spliced later covers: the
\* sentence holds there what the entity added last puts
C27_Witness ==
    \E i \in 1..Len(records) :
        /\ Processed(i)
        /\ \E k \in ClaimLastOfTies(i) :
               \E j \in 1..(k - 1) :
                   /\ merged[i][j].BeginOffset = merged[i][k].BeginOffset
                   /\ \E p \in ClaimSharedPositions(i, k) :
                          /\ ~ClaimCoveredLater(i, k, p)
                          /\ ClaimMaskAt(i, j, p) # ClaimMaskAt(i, k, p)
                          /\ Cur(i)[p] = ClaimMaskAt(i, k, p)

\* C28: for every audit row the original field is the substring of the
\* record's original (unmasked, uncleaned) sentence at the entity's
\* [begin, end) span and the masked field is format_preserving_mask of that
\* substring, for pattern-detected entities as for primary-detector entities,
\* also when the span contains a filler word.
C28_AuditOriginalFromOriginalSentence ==
    \A k \in 1..Len(audit_log) :
        LET span == Slice(Orig(trail[k].rec), trail[k].b, trail[k].e)
        IN  /\ audit_log[k].original = span
            /\ audit_log[k].masked = format_preserving_mask(span)

\* the primary rows of record i at the span and with the type of the entity e
\* that the primary detector returned
ClaimRowsFor(i, e) ==
    {r \in PrimaryRows(i) : /\ trail[r].b = e.BeginOffset
                            /\ trail[r].e = e.EndOffset
                            /\ audit_log[r].pii_type = ClaimNormalized(e.Type)}
\* the entities returned for record i with that span and type whose score as
\* returned is not below the threshold
ClaimConfidentLike(i, e) ==
    {j \in 1..Len(responses[i].Entities) :
        LET x == responses[i].Entities[j]
        IN  /\ x.BeginOffset = e.BeginOffset
            /\ x.EndOffset = e.EndOffset
            /\ ClaimNormalized(x.Type) = ClaimNormalized(e.Type)
            /\ x.Score >= min_confidence}

\* C29: a primary-detector entity whose score as the detector returned it is
\* strictly below the caller's threshold is never masked and never written to
\* the audit log, also for a score just below the threshold (0.5996 against
\* 0.6): the primary rows at its span and of its type are no more than the
\* returned entities of that span and type that reach the threshold.
C29_BelowThresholdNeverMasked ==
    \A i \in Recs :
        (Finished(i) /\ calls[i] = 1 /\ ~responses[i].failed) =>
            \A k \in 1..Len(responses[i].Entities) :
                LET e == responses[i].Entities[k]
                IN  e.Score < min_confidence =>
                        Cardinality(ClaimRowsFor(i, e))
                            <= Cardinality(ClaimConfidentLike(i, e))

====
